---- MODULE Spec2Model ----
(***************************************************************************)
(* A model of the Markdown formatter (package formatter): the Render      *)
(* function of render.go, which walks a parsed document tree with          *)
(* ast.Walk and writes canonical Markdown to a sink that may fail.         *)
(*                                                                         *)
(* Text is modelled as a sequence of runes, each rune a string of one      *)
(* character; a rune of RunesWide is encoded in more than one byte.        *)
(***************************************************************************)
EXTENDS Integers, Sequences, FiniteSets, TLC

VARIABLES
  root,    \* the document tree given to Render
  cfg,     \* the format settings (package variables of render.go)
  cfg0,    \* history: the settings in force when Render was called
  failAt,  \* the sink rejects its failAt-th write (0: it never fails)
  sticky,  \* whether the sink keeps failing after its first failure
  encOk,   \* whether the YAML encoder can marshal the metadata
  path,    \* ast.Walk's position: the child indices from the root
  phase,   \* "enter" or "exit": the next call of the walker at path
  pc,      \* "walk": inside ast.Walk; "return": ast.Walk is over and the
           \* deferred recover is to run; "done": Render has returned
  w,       \* the writer w and the named result err of Render
  log,     \* history: the walker calls made so far, with their output
  result,  \* the error Render returned ("none" until it returns)
  cli      \* the command-line front end: its variables and its position

vars ==
  <<root, cfg, cfg0, failAt, sticky, encOk, path, phase, pc, w, log, result,
    cli>>

(***************************************************************************)
(* Byte and rune helpers (package bytes, strings, unicode/utf8, util)      *)
(***************************************************************************)

\* runes whose UTF-8 encoding is two bytes long (stand-ins for e.g. U+00E9)
RunesWide == {"U+E9", "U+44F"}

\* the number of bytes of the UTF-8 encoding of rune c
ByteLen(c) == IF c \in RunesWide THEN 2 ELSE 1

RECURSIVE Flatten(_)
\* the concatenation of a sequence of sequences
Flatten(ss) == IF ss = <<>> THEN <<>> ELSE Head(ss) \o Flatten(Tail(ss))

\* strings.Repeat / bytes.Repeat: k copies of the text s
RECURSIVE Repeat(_, _)
Repeat(s, k) == IF k <= 0 THEN <<>> ELSE s \o Repeat(s, k - 1)

\* len(s): the length of text s in bytes
RECURSIVE LenBytes(_)
LenBytes(s) == IF s = <<>> THEN 0 ELSE ByteLen(Head(s)) + LenBytes(Tail(s))

\* utf8.RuneCount / utf8.RuneCountInString
RuneCount(s) == Len(s)

\* unicode.IsSpace / util.IsSpace on the runes the model uses
IsSpace(c) == c \in {" ", "\n", "\t"}

\* util.TrimRightSpace
RECURSIVE TrimRightSpace(_)
TrimRightSpace(s) ==
  IF s # <<>> /\ IsSpace(s[Len(s)]) THEN TrimRightSpace(SubSeq(s, 1, Len(s) - 1))
  ELSE s

RECURSIVE TrimLeftSpace(_)
TrimLeftSpace(s) ==
  IF s # <<>> /\ IsSpace(Head(s)) THEN TrimLeftSpace(Tail(s)) ELSE s

\* bytes.TrimSpace
TrimSpace(s) == TrimLeftSpace(TrimRightSpace(s))

\* bytes.SplitAfter(s, "\n"): the lines of s, each keeping its terminator;
\* a text without a newline (the empty text too) is one line
RECURSIVE SplitAfter(_)
SplitAfter(s) ==
  IF \A i \in 1..Len(s) : s[i] # "\n" THEN <<s>>
  ELSE LET i == CHOOSE k \in 1..Len(s) :
                  s[k] = "\n" /\ \A m \in 1..(k - 1) : s[m] # "\n"
       IN <<SubSeq(s, 1, i)>> \o SplitAfter(SubSeq(s, i + 1, Len(s)))

\* bytes.Fields: the maximal runs of non-space runes of s
RECURSIVE Fields(_)
Fields(s) ==
  LET t == TrimLeftSpace(s)
  IN IF t = <<>> THEN <<>>
     ELSE LET n == IF \E k \in 1..Len(t) : IsSpace(t[k])
                   THEN (CHOOSE k \in 1..Len(t) :
                           IsSpace(t[k]) /\ \A m \in 1..(k - 1) : ~IsSpace(t[m])) - 1
                   ELSE Len(t)
          IN <<SubSeq(t, 1, n)>> \o Fields(SubSeq(t, n + 1, Len(t)))

\* strings.Join(parts, sep)
RECURSIVE Join(_, _)
Join(parts, sep) ==
  IF parts = <<>> THEN <<>>
  ELSE IF Len(parts) = 1 THEN parts[1]
  ELSE parts[1] \o sep \o Join(Tail(parts), sep)

\* fmt's %d for a non-negative integer
RECURSIVE Digits(_)
Digits(k) ==
  LET d == <<"0", "1", "2", "3", "4", "5", "6", "7", "8", "9">>
  IN IF k < 10 THEN <<d[k + 1]>> ELSE Digits(k \div 10) \o <<d[(k % 10) + 1]>>

\* fmt's %q for a text without characters that need escaping
Quote(s) == <<"\"">> \o s \o <<"\"">>

(***************************************************************************)
(* Format settings (render.go, the package variables)                      *)
(***************************************************************************)

\* the rune U+0060 (grave accent, the code delimiter of Markdown)
Backtick == "GRAVE"

FencedCodeBlock == <<Backtick, Backtick, Backtick>>

ThematicBreak == <<"-", "-", "-", "-">>

\* the default value of EntityReplacement
DefaultEntityReplacement ==
  (<<"&", "l", "d", "q", "u", "o", ";">> :> <<"\"">>) @@
  (<<"&", "r", "d", "q", "u", "o", ";">> :> <<"\"">>) @@
  (<<"&", "l", "a", "q", "u", "o", ";">> :> <<"\"">>) @@
  (<<"&", "r", "a", "q", "u", "o", ";">> :> <<"\"">>) @@
  (<<"&", "l", "s", "q", "u", "o", ";">> :> <<"'">>) @@
  (<<"&", "r", "s", "q", "u", "o", ";">> :> <<"'">>) @@
  (<<"&", "n", "d", "a", "s", "h", ";">> :> <<"-", "-">>) @@
  (<<"&", "m", "d", "a", "s", "h", ";">> :> <<"-", "-", "-">>) @@
  (<<"&", "h", "e", "l", "l", "i", "p", ";">> :> <<".", ".", ".">>)

\* a table a caller configures: it adds entities of 3 and 4 letters
CustomEntityReplacement ==
  (<<"&", "a", "m", "p", ";">> :> <<"+">>) @@
  (<<"&", "n", "b", "s", "p", ";">> :> <<" ">>) @@
  (<<"&", "m", "d", "a", "s", "h", ";">> :> <<"-", "-">>) @@
  (<<"&", "h", "e", "l", "l", "i", "p", ";">> :> <<".", ".", ".">>)

\* an empty table switches the replacement off
NoEntityReplacement == [e \in {} |-> <<>>]

\* the default values of the settings
DefaultCfg ==
  [SkipHTML |-> FALSE, STXHeader |-> TRUE, LineBreak |-> FALSE,
   UseListMarker |-> TRUE, EntityReplacement |-> DefaultEntityReplacement]

(***************************************************************************)
(* Entity normalization                                                    *)
(***************************************************************************)

\* [[:alpha:]]: the ASCII letters
Alpha ==
  {"a", "b", "c", "d", "e", "f", "g", "h", "i", "j", "k", "l", "m", "n", "o",
   "p", "q", "r", "s", "t", "u", "v", "w", "x", "y", "z", "A", "B", "C", "D",
   "E", "F", "G", "H", "I", "J", "K", "L", "M", "N", "O", "P", "Q", "R", "S",
   "T", "U", "V", "W", "X", "Y", "Z"}

\* the mutant of reHTMLEntity: a pattern of exactly 5 letters
reHTMLEntityFive(s) ==
  IF Len(s) >= 7 /\ s[1] = "&" /\ (\A k \in 2..6 : s[k] \in Alpha) /\ s[7] = ";"
  THEN 7 ELSE 0

\* reHTMLEntity, `&[[:alpha:]]{5,6};`: the length of its match at the start
\* of s, 0 when it does not match there
reHTMLEntity(s) ==
  IF Len(s) >= 7 /\ s[1] = "&" /\ \A k \in 2..6 : s[k] \in Alpha
  THEN IF Len(s) >= 8 /\ s[7] \in Alpha /\ s[8] = ";" THEN 8
       ELSE IF s[7] = ";" THEN 7 ELSE 0
  ELSE 0

\* the function given to ReplaceAllFunc: the table's value for a key, the
\* match itself otherwise
ReplaceEntity(ent, table) ==
  IF ent \in DOMAIN table THEN table[ent] ELSE ent

\* reHTMLEntity.ReplaceAllFunc(s, ...): the leftmost matches, left to right
RECURSIVE ReplaceAllFunc(_, _)
ReplaceAllFunc(s, table) ==
  IF s = <<>> THEN <<>>
  ELSE LET m == reHTMLEntity(s)
       IN IF m > 0
          THEN ReplaceEntity(SubSeq(s, 1, m), table)
                 \o ReplaceAllFunc(SubSeq(s, m + 1, Len(s)), table)
          ELSE <<Head(s)>> \o ReplaceAllFunc(Tail(s), table)

(***************************************************************************)
(* The document tree (goldmark's ast.Node, as Render reads it)             *)
(***************************************************************************)

\* a node of the given kind with children ch and every other field at
\* its zero value
Node(kind, ch) ==
  [kind |-> kind, ch |-> ch,
   level |-> 0,        \* Heading.Level, Emphasis.Level
   value |-> <<>>,     \* Text segment, String.Value, Link/Image.Destination
   lines |-> <<>>,     \* Lines(): the source lines of a block
   soft |-> FALSE,     \* Text.SoftLineBreak()
   hard |-> FALSE,     \* Text.HardLineBreak()
   code |-> FALSE,     \* String.IsCode()
   marker |-> "-",     \* List.Marker
   start |-> 0,        \* List.Start
   tight |-> TRUE,     \* List.IsTight
   aligns |-> <<>>,    \* Table.Alignments
   attrs |-> <<>>,     \* Attributes(): pairs <<name, value>>
   hasTitle |-> FALSE, \* Link/Image.Title != nil
   title |-> <<>>,     \* Link/Image.Title
   hasInfo |-> FALSE,  \* FencedCodeBlock.Info != nil
   closure |-> <<>>,   \* HTMLBlock.ClosureLine (empty: HasClosure() is false)
   checked |-> FALSE,  \* TaskCheckBox.IsChecked
   index |-> 0,        \* Footnote.Index, FootnoteLink.Index
   padding |-> 0,      \* LineBlockItem.Padding
   meta |-> <<>>]      \* Document.Meta(), as the encoder writes it

\* List.IsOrdered()
IsOrdered(n) == n.marker \in {".", ")"}

\* node.AttributeString(name)
HasAttr(n, name) == \E i \in 1..Len(n.attrs) : n.attrs[i][1] = name

AttrValue(n, name) ==
  n.attrs[CHOOSE i \in 1..Len(n.attrs) : n.attrs[i][1] = name][2]

(***************************************************************************)
(* The writer and the write helper of Render                               *)
(***************************************************************************)

\* the state of one Render call's writer: an io.Writer (buf = FALSE: the
\* caller's sink) or a bytes.Buffer (buf = TRUE), with Render's err
NewWriter(isBuf) ==
  [out |-> <<>>,        \* the bytes the writer holds
   attempts |-> 0,      \* the calls of Write made on it
   lastErr |-> FALSE,   \* whether the last Write returned an error
   failedAt |-> 0,      \* the attempt that failed first (0: none)
   outAtFail |-> <<>>,  \* out when the first failure happened
   pending |-> <<>>,    \* bytes the YAML encoder still holds
   encodes |-> 0,       \* metadata blocks the encoder has written
   encFailed |-> FALSE, \* whether enc.Encode has returned an error
   outAtEncFail |-> <<>>, \* out when enc.Encode returned its first error
   err |-> "nil",       \* Render's named result err
   panic |-> "none",    \* the panic unwinding the call, if any
   stop |-> FALSE,      \* the walker returned ast.WalkStop
   buf |-> isBuf]

\* w.Write(s): a bytes.Buffer never fails; the sink fails as scheduled and
\* then takes nothing
SinkWrite(st, s) ==
  LET k == st.attempts + 1
      fails == /\ ~st.buf
               /\ failAt # 0
               /\ (k = failAt \/ (sticky /\ k > failAt))
      first == fails /\ st.failedAt = 0
  IN [st EXCEPT !.attempts = k,
                !.lastErr = fails,
                !.out = IF fails THEN @ ELSE @ \o s,
                !.failedAt = IF first THEN k ELSE @,
                !.outAtFail = IF first THEN st.out ELSE @]

\* the mutant of write: the error of Fprintf is dropped (as renderer.go's
\* `_, _ = io.WriteString(w, ...)` does)
writeIgnoringError(st, s) ==
  LET a == SinkWrite(st, s) IN a

\* write(str, a...): `if _, err = fmt.Fprintf(w, ...); err != nil { panic(err) }`
write(st, s) ==
  LET a == SinkWrite(st, s)
  IN IF a.lastErr THEN [a EXCEPT !.err = "write", !.panic = "write"]
     ELSE [a EXCEPT !.err = "nil"]

\* enc.Encode(meta) has returned an error
EncodeFailed(st) ==
  [st EXCEPT !.err = "encode", !.encFailed = TRUE,
             !.outAtEncFail = IF st.encFailed THEN @ ELSE st.out]

\* enc.Encode(meta): the encoder marshals the mapping and flushes it to w
\* in one Write; what a failed flush could not write stays in the encoder
Encode(st, meta) ==
  IF ~encOk THEN EncodeFailed(st)
  ELSE LET a == SinkWrite(st, meta)
       IN IF a.lastErr THEN [EncodeFailed(a) EXCEPT !.pending = meta]
          ELSE [a EXCEPT !.err = "nil", !.encodes = @ + 1]

\* enc.Close(): "closes the encoder by writing any remaining data"; its
\* error is dropped
Close(st) ==
  IF st.pending = <<>> THEN st
  ELSE LET a == SinkWrite(st, st.pending)
       IN [a EXCEPT !.pending = IF a.lastErr THEN @ ELSE <<>>]

\* the steps of a walker call, in program order
W(s) == [op |-> "write", s |-> s]
OpEncode(meta) == [op |-> "encode", s |-> meta]
OpClose == [op |-> "close", s |-> <<>>]
OpCheck == [op |-> "check", s |-> <<>>]
OpFault == [op |-> "fault", s |-> <<>>]
OpStop == [op |-> "stop", s |-> <<>>]

\* whether the walk is over: a panic unwinds it or the walker stopped it
Halted(st) == st.panic # "none" \/ st.stop

\* one step of a walker call
ExecOp(o, st) ==
  CASE o.op = "write" -> write(st, o.s)
    [] o.op = "encode" -> Encode(st, o.s)
    [] o.op = "close" -> Close(st)
    \* `if err != nil { return ast.WalkStop, err }`
    [] o.op = "check" -> IF st.err # "nil" THEN [st EXCEPT !.stop = TRUE] ELSE st
    \* a run-time panic that is no write error
    [] o.op = "fault" -> [st EXCEPT !.panic = "fault"]
    \* `if err = Render(&buf, ...); err != nil { return ast.WalkStop, err }`
    [] o.op = "stop" -> [st EXCEPT !.err = "fault", !.stop = TRUE]

\* the steps of a walker call run in order until one ends the walk
RECURSIVE Exec(_, _)
Exec(ops, st) ==
  IF ops = <<>> \/ Halted(st) THEN st
  ELSE Exec(Tail(ops), ExecOp(Head(ops), st))

\* the mutant of Recover: the panic is stopped but not made the error
RecoverErrOnly(st) == st.err

\* the deferred function of Render: a recovered panic becomes the error
\* unless err is already set
Recover(st) ==
  IF st.panic # "none" /\ st.err = "nil" THEN "fault" ELSE st.err

(***************************************************************************)
(* The walker of Render: what one call writes, by node kind                *)
(***************************************************************************)

NL == <<"\n">>

\* writeAttributes(node): the attribute block, when the node has attributes
writeAttributes(n) ==
  IF Len(n.attrs) = 0 THEN <<>>
  ELSE LET id == IF HasAttr(n, "id")
                 THEN <<(<<"#">> \o AttrValue(n, "id"))>> ELSE <<>>
           classes == IF HasAttr(n, "class") THEN Fields(AttrValue(n, "class"))
                      ELSE <<>>
           cls == [i \in 1..Len(classes) |-> <<".">> \o classes[i]]
           rest == SelectSeq(n.attrs, LAMBDA a : a[1] \notin {"id", "class"})
           \* fmt.Sprintf("%s=%q ", attr.Name, attr.Value)
           other == [i \in 1..Len(rest) |->
                       <<rest[i][1], "=">> \o Quote(rest[i][2]) \o <<" ">>]
       IN <<W(<<"{">> \o Join(id \o cls \o other, <<" ">>) \o <<"}">>)>>

\* the sum of the rune counts of the lines, each with its trailing
\* whitespace trimmed
RECURSIVE SumTrimmed(_)
SumTrimmed(lines) ==
  IF lines = <<>> THEN 0
  ELSE RuneCount(TrimRightSpace(Head(lines))) + SumTrimmed(Tail(lines))

\* the mutant of HeadingLength: the lines are counted in bytes
HeadingLengthBytes(n, c) ==
  IF c.LineBreak THEN LenBytes(n.lines[Len(n.lines)])
  ELSE LenBytes(Flatten([i \in 1..Len(n.lines) |-> TrimRightSpace(n.lines[i])]))

\* the length of a setext underline (n has a line when LineBreak is set)
HeadingLength(n, c) ==
  IF c.LineBreak THEN RuneCount(n.lines[Len(n.lines)])
  ELSE SumTrimmed(n.lines)

\* the mutant of HeadingOps: every heading is written in the ATX style
HeadingOpsATX(n, entering, c) ==
  IF entering THEN <<W(Repeat(<<"#">>, n.level) \o <<" ">>)>>
  ELSE (IF n.attrs # <<>> THEN <<W(<<" ">>)>> \o writeAttributes(n) ELSE <<>>)
       \o <<W(<<"\n", "\n">>)>>

\* case *ast.Heading
HeadingOps(n, entering, c) ==
  IF entering
  THEN IF ~c.STXHeader \/ n.level > 2
       THEN <<W(Repeat(<<"#">>, n.level) \o <<" ">>)>> ELSE <<>>
  ELSE (IF n.attrs # <<>> THEN <<W(<<" ">>)>> \o writeAttributes(n) ELSE <<>>)
       \o (IF c.STXHeader /\ n.level < 3
           THEN <<W(NL)>>
                \o (IF c.LineBreak /\ n.lines = <<>>
                    THEN <<OpFault>>   \* lines.At(-1)
                    ELSE <<W(Repeat(IF n.level = 2 THEN <<"-">> ELSE <<"=">>,
                                    HeadingLength(n, c)))>>)
           ELSE <<>>)
       \o <<W(<<"\n", "\n">>)>>

\* the mutant of EmphasisDelimiter: the level is not looked at
EmphasisDelimiterOne(level) == <<"_">>

\* case *ast.Emphasis: the delimiter of a level
EmphasisDelimiter(level) == IF level = 1 THEN <<"_">> ELSE <<"*", "*">>

\* case *ast.Text
TextOps(n, c) ==
  <<W(n.value)>>
  \o (IF n.soft
      THEN (CASE n.hard -> <<W(<<"\\", "\n">>)>>
              [] ~n.hard /\ c.LineBreak -> <<W(NL)>>
              [] OTHER -> <<W(<<" ">>)>>)
      ELSE <<>>)

\* case *ast.String
StringOps(n, c) ==
  IF n.code /\ DOMAIN c.EntityReplacement # {}
  THEN <<W(ReplaceAllFunc(n.value, c.EntityReplacement))>>
  ELSE <<W(n.value)>>

\* case *ast.Link and *ast.Image, on exit
LinkExitOps(n) ==
  <<W(<<"]", "(">> \o n.value)>>
  \o (IF n.hasTitle THEN <<W(<<" ">> \o Quote(n.title))>> ELSE <<>>)
  \o <<W(<<")">>)>>
  \o writeAttributes(n)

\* one write per element of lines
WriteEach(lines) == [i \in 1..Len(lines) |-> W(lines[i])]

\* `for i, line := range lines { if i > 0 && len(line) > 0 &&
\*  line[0] != '\n' { write(indent) }; write("%s", line) }`
IndentLines(lines, indent) ==
  Flatten([i \in 1..Len(lines) |->
             IF i > 1 /\ lines[i] # <<>> /\ lines[i][1] # "\n"
             THEN <<W(indent), W(lines[i])>> ELSE <<W(lines[i])>>])

\* the mutant of QuoteLines: every line gets `> `
QuoteLinesSpaced(lines) ==
  Flatten([i \in 1..Len(lines) |-> <<W(<<">">>), W(<<" ">>), W(lines[i])>>])

\* case *ast.Blockquote: the prefix loop over the lines
QuoteLines(lines) ==
  Flatten([i \in 1..Len(lines) |->
             <<W(<<">">>)>>
             \o (IF lines[i] # <<>> /\ lines[i][1] \notin {">", "\n"}
                 THEN <<W(<<" ">>)>> ELSE <<>>)
             \o <<W(lines[i])>>])

\* the mutant of ListIndent: two spaces for every list
ListIndentTwo(n) == <<" ", " ">>

\* case *ast.List: the indent of the continuation lines
ListIndent(n) == IF IsOrdered(n) THEN <<" ", " ", " ">> ELSE <<" ", " ">>

\* case *ast.List: the marker of the item with ordinal start
ListMarkerOps(n, start, c) ==
  (IF IsOrdered(n) THEN <<W(Digits(start))>> ELSE <<>>)
  \o (CASE c.UseListMarker -> <<W(<<n.marker, " ">>)>>
        [] ~c.UseListMarker /\ IsOrdered(n) -> <<W(<<".", " ">>)>>
        [] OTHER -> <<W(<<"-", " ">>)>>)

\* the mutant of CellWidth: the width of a cell in bytes
CellWidthBytes(text) == LenBytes(text)

\* case *east.Table: utf8.RuneCountInString(cell)
CellWidth(text) == RuneCount(text)

\* the mutant of CellOps: a centred cell gets the larger half of the padding
\* in front
CellOpsCeil(cell, width, align) ==
  LET indent == Repeat(<<" ">>, width - CellWidth(cell))
      half == (LenBytes(indent) + 1) \div 2
  IN CASE align = "right" -> <<W(<<"|", " ">> \o indent \o cell \o <<" ">>)>>
       [] align = "center" ->
            <<W(<<"|", " ">> \o SubSeq(indent, 1, half) \o cell
                \o SubSeq(indent, half + 1, Len(indent)) \o <<" ">>)>>
       [] OTHER -> <<W(<<"|", " ">> \o cell \o indent \o <<" ">>)>>

\* case *east.Table: one cell of the second pass
CellOps(cell, width, align) ==
  LET indent == Repeat(<<" ">>, width - CellWidth(cell))
      half == LenBytes(indent) \div 2   \* len(indent)/2
  IN CASE align = "right" -> <<W(<<"|", " ">> \o indent \o cell \o <<" ">>)>>
       [] align = "center" ->
            <<W(<<"|", " ">> \o SubSeq(indent, 1, half) \o cell
                \o SubSeq(indent, half + 1, Len(indent)) \o <<" ">>)>>
       [] OTHER -> <<W(<<"|", " ">> \o cell \o indent \o <<" ">>)>>

\* the mutant of DividerOps: the alignment is not looked at
DividerOpsPlain(width, align) ==
  <<W(<<"|">> \o Repeat(<<"-">>, width + 2))>>

\* case *east.Table: the header divider of one column
DividerOps(width, align) ==
  CASE align = "left" -> <<W(<<"|", ":">> \o Repeat(<<"-">>, width + 1))>>
    [] align = "right" -> <<W(<<"|">> \o Repeat(<<"-">>, width + 1) \o <<":">>)>>
    [] align = "center" ->
         <<W(<<"|", ":">> \o Repeat(<<"-">>, width) \o <<":">>)>>
    [] OTHER -> <<W(<<"|">> \o Repeat(<<"-">>, width + 2))>>

\* case *east.Table: the second pass over the collected rows
TableRowsOps(n, table, columns) ==
  Flatten([i \in 1..Len(table) |->
    Flatten([j \in 1..Len(table[i]) |->
               CellOps(table[i][j], columns[j], n.aligns[j])])
    \o (IF i = 1
        THEN <<W(<<"|", "\n">>)>>
             \o Flatten([j \in 1..Len(n.aligns) |->
                           DividerOps(columns[j], n.aligns[j])])
        ELSE <<>>)
    \o <<W(<<"|", "\n">>)>>])

\* the mutant of DocumentOps: the error of enc.Encode is not looked at
DocumentOpsUnchecked(n) ==
  IF n.meta # <<>>
  THEN <<W(<<"-", "-", "-", "\n">>), OpEncode(n.meta), OpClose,
         W(<<"-", "-", "-", "\n">>)>>
  ELSE <<>>

\* case *ast.Document: the metadata block (the case does not look at
\* `entering`)
DocumentOps(n) ==
  IF n.meta # <<>>
  THEN <<W(<<"-", "-", "-", "\n">>), OpEncode(n.meta), OpClose, OpCheck,
         W(<<"-", "-", "-", "\n">>)>>
  ELSE <<>>

(***************************************************************************)
(* Render: the walk, and the nested calls that render into a buffer        *)
(***************************************************************************)

\* the kind of the previous sibling of the i-th child of parent
PrevKind(parent, i) == IF i > 1 THEN parent.ch[i - 1].kind ELSE "none"

\* whether the i-th child of parent has a next sibling
HasNext(parent, i) == i < Len(parent.ch)

\* the mutant of Reset: the buffer keeps what it holds
ResetNothing(b) == b

\* buf.Reset()
Reset(b) == [b EXCEPT !.out = <<>>]

\* `var buf bytes.Buffer`
NewBuffer == NewWriter(TRUE)

\* bytes.SplitAfter(bytes.TrimSpace(buf.Bytes()), "\n")
TrimmedLines(b) == SplitAfter(TrimSpace(b.out))

\* the node kinds whose case answers ast.WalkSkipChildren on entry
SkipKinds ==
  {"Blockquote", "CodeBlock", "FencedCodeBlock", "List", "RawHTML",
   "Footnote", "DefinitionDescription", "Table"}

\* the mutant of SkipChildren: only the leaf blocks and raw HTML skip
SkipChildrenOfLeaves(n) == n.kind \in {"CodeBlock", "FencedCodeBlock", "RawHTML"}

\* whether the walker answers ast.WalkSkipChildren for node n on entry
SkipChildren(n) == n.kind \in SkipKinds

RECURSIVE Visit(_, _, _, _, _)
RECURSIVE WalkNode(_, _, _, _, _)
RECURSIVE WalkChildren(_, _, _, _)
RECURSIVE Render(_, _, _, _, _)
RECURSIVE RenderChildren(_, _, _, _)
RECURSIVE ListItemsOps(_, _, _, _, _)
RECURSIVE TableCollect(_, _, _, _, _, _, _, _)

\* the entry of a Render call: its own err, no panic
Called(st) == [st EXCEPT !.err = "nil", !.panic = "none", !.stop = FALSE]

\* the return of a Render call whose walk ended in s1: the deferred
\* recover has run and the returned error is left in err
Returned(s1) ==
  [s1 EXCEPT !.err = Recover(s1), !.panic = "none", !.stop = FALSE]

\* Render(w, source, node): the whole call, on writer st
Render(st, n, prev, next, c) == Returned(WalkNode(Called(st), n, prev, next, c))

\* `if err = Render(&buf, source, child); err != nil { return ... }`, then
\* the next child
RenderNext(b1, n, k, c) ==
  IF b1.err # "nil" THEN b1 ELSE RenderChildren(b1, n, k + 1, c)

\* `for child := n.FirstChild(); child != nil; child = child.NextSibling()
\*  { ... Render(&buf, source, child) ... }`, from the k-th child on
RenderChildren(b, n, k, c) ==
  IF k > Len(n.ch) THEN b
  ELSE RenderNext(Render(b, n.ch[k], PrevKind(n, k), HasNext(n, k), c), n, k, c)

\* walkHelper after the children: the walker on exit
WalkExit(s2, n, prev, next, c) ==
  IF Halted(s2) THEN s2 ELSE Exec(Visit(n, FALSE, prev, next, c), s2)

\* walkHelper after the walker's call on entry: the children unless it
\* answered WalkSkipChildren
WalkEntered(s1, n, prev, next, c) ==
  IF Halted(s1) THEN s1
  ELSE WalkExit(IF SkipChildren(n) THEN s1 ELSE WalkChildren(s1, n, 1, c),
                n, prev, next, c)

\* ast.Walk (walkHelper) on node n
WalkNode(st, n, prev, next, c) ==
  WalkEntered(Exec(Visit(n, TRUE, prev, next, c), st), n, prev, next, c)

\* walkHelper's loop over the children, from the k-th on
WalkChildren(st, n, k, c) ==
  IF k > Len(n.ch) \/ Halted(st) THEN st
  ELSE WalkChildren(WalkNode(st, n.ch[k], PrevKind(n, k), HasNext(n, k), c),
                    n, k + 1, c)

\* case *ast.Blockquote, on entry: nested holds the rendered children
BlockquoteOps(nested) ==
  IF nested.err # "nil" THEN <<OpStop>> ELSE QuoteLines(TrimmedLines(nested))

\* case *east.Footnote, on entry, after the marker
FootnoteOps(nested) ==
  IF nested.err # "nil" THEN <<OpStop>>
  ELSE IndentLines(TrimmedLines(nested), <<" ", " ", " ", " ">>)
       \o <<W(<<"\n", "\n">>)>>

\* case *east.DefinitionDescription, on entry, after the marker
DefinitionOps(nested) ==
  IF nested.err # "nil" THEN <<OpStop>>
  ELSE IndentLines(TrimmedLines(nested), <<" ", " ">>) \o <<W(NL)>>

\* case *ast.List: the k-th item, its children rendered into b1, and the
\* items after it
ListItemOps(b1, n, k, start, c) ==
  IF b1.err # "nil" THEN <<OpStop>>
  ELSE ListMarkerOps(n, start, c)
       \o IndentLines(TrimmedLines(b1), ListIndent(n))
       \o <<W(NL)>>
       \o (IF ~n.tight THEN <<W(NL)>> ELSE <<>>)
       \o ListItemsOps(n, k + 1, IF IsOrdered(n) THEN start + 1 ELSE start,
                       Reset(b1), c)

\* case *ast.List: the loop over the items, from the k-th on; b is the
\* scratch buffer shared by the items
ListItemsOps(n, k, start, b, c) ==
  IF k > Len(n.ch) THEN (IF n.tight THEN <<W(NL)>> ELSE <<>>)
  ELSE ListItemOps(RenderChildren(b, n.ch[k], 1, c), n, k, start, c)

\* case *east.Table, first pass: cell j of row r, rendered into b1.
\* "stop": a nested Render failed; "fault": the row has more cells than
\* the table has alignments (columns[column])
TableCell(b1, n, r, j, columns, table, cur, c) ==
  IF b1.err # "nil"
  THEN [status |-> "stop", columns |-> columns, table |-> table]
  ELSE IF j > Len(columns)
  THEN [status |-> "fault", columns |-> columns, table |-> table]
  ELSE TableCollect(n, r, j + 1, Reset(b1),
                    IF CellWidth(b1.out) > columns[j]
                    THEN [columns EXCEPT ![j] = CellWidth(b1.out)]
                    ELSE columns,
                    table, Append(cur, b1.out), c)

\* case *east.Table: the first pass, at cell j of row r; cur is the row
\* being collected and b the scratch buffer shared by the cells
TableCollect(n, r, j, b, columns, table, cur, c) ==
  IF r > Len(n.ch)
  THEN [status |-> "ok", columns |-> columns, table |-> table]
  ELSE IF j > Len(n.ch[r].ch)
  THEN TableCollect(n, r + 1, 1, b, columns, Append(table, cur), <<>>, c)
  ELSE TableCell(RenderChildren(b, n.ch[r].ch[j], 1, c),
                 n, r, j, columns, table, cur, c)

\* case *east.Table, on entry: the second pass over what t collected
TableOps(n, t) ==
  CASE t.status = "stop" -> <<OpStop>>
    [] t.status = "fault" -> <<OpFault>>
    [] OTHER -> TableRowsOps(n, t.table, t.columns)

\* the attribute block a case writes after the node, on a line of its own
AttrsAfter(n) ==
  IF n.attrs # <<>> THEN <<W(NL)>> \o writeAttributes(n) ELSE <<>>

\* the attribute block a case writes after the node, followed by a newline
AttrsLine(n) ==
  IF n.attrs # <<>> THEN writeAttributes(n) \o <<W(NL)>> ELSE <<>>

\* the walker: the steps of its call on node n
Visit(n, entering, prev, next, c) ==
  CASE n.kind = "Document" -> DocumentOps(n)
    [] n.kind = "Heading" -> HeadingOps(n, entering, c)
    [] n.kind = "Blockquote" ->
         IF entering THEN BlockquoteOps(RenderChildren(NewBuffer, n, 1, c))
         ELSE AttrsAfter(n) \o <<W(<<"\n", "\n">>)>>
    [] n.kind = "CodeBlock" ->
         IF entering
         THEN [i \in 1..Len(n.lines) |->
                 W(<<" ", " ", " ", " ">> \o n.lines[i])] \o <<W(NL)>>
         ELSE <<>>
    [] n.kind = "FencedCodeBlock" ->
         IF entering
         THEN <<W(FencedCodeBlock)>>
              \o (IF n.hasInfo THEN <<W(n.value)>> ELSE <<>>)
              \o <<W(NL)>> \o WriteEach(n.lines) \o <<W(FencedCodeBlock)>>
         ELSE AttrsAfter(n) \o <<W(<<"\n", "\n">>)>>
    [] n.kind = "HTMLBlock" ->
         IF entering THEN WriteEach(n.lines)
         ELSE (IF n.closure # <<>> THEN <<W(n.closure)>> ELSE <<>>)
              \o <<W(NL)>>
    [] n.kind = "List" ->
         IF entering
         THEN ListItemsOps(n, 1, IF n.start = 0 THEN 1 ELSE n.start,
                           NewBuffer, c)
         ELSE <<>>
    [] n.kind = "Paragraph" ->
         IF entering THEN (IF prev = "TextBlock" THEN <<W(NL)>> ELSE <<>>)
         ELSE AttrsAfter(n) \o <<W(<<"\n", "\n">>)>>
    [] n.kind = "TextBlock" ->
         IF ~entering /\ next /\ n.ch # <<>> THEN <<W(NL)>> ELSE <<>>
    [] n.kind = "ThematicBreak" ->
         IF entering THEN <<W(ThematicBreak)>>
         ELSE AttrsLine(n) \o <<W(<<"\n", "\n">>)>>
    [] n.kind = "AutoLink" ->
         IF entering THEN <<W(<<"<">> \o n.value \o <<">">>)>> ELSE <<>>
    [] n.kind = "CodeSpan" -> <<W(<<Backtick>>)>>
    [] n.kind = "Emphasis" -> <<W(EmphasisDelimiter(n.level))>>
    [] n.kind = "Link" -> IF entering THEN <<W(<<"[">>)>> ELSE LinkExitOps(n)
    [] n.kind = "Image" ->
         IF entering THEN <<W(<<"!", "[">>)>> ELSE LinkExitOps(n)
    [] n.kind = "RawHTML" ->
         IF ~c.SkipHTML /\ entering THEN WriteEach(n.lines) ELSE <<>>
    [] n.kind = "Text" -> IF entering THEN TextOps(n, c) ELSE <<>>
    [] n.kind = "String" -> IF entering THEN StringOps(n, c) ELSE <<>>
    [] n.kind = "Strikethrough" -> <<W(<<"~", "~">>)>>
    [] n.kind = "TaskCheckBox" ->
         IF entering
         THEN <<W(<<"[", IF n.checked THEN "x" ELSE " ", "]", " ">>)>>
         ELSE <<>>
    [] n.kind = "FootnoteLink" ->
         IF entering THEN <<W(<<"[", "^">> \o Digits(n.index) \o <<"]">>)>>
         ELSE <<>>
    [] n.kind = "Footnote" ->
         IF entering
         THEN <<W(<<"[", "^">> \o Digits(n.index) \o <<"]", ":", " ">>)>>
              \o FootnoteOps(RenderChildren(NewBuffer, n, 1, c))
         ELSE <<>>
    [] n.kind = "FootnoteList" ->
         IF entering THEN <<W(NL)>> ELSE <<W(NL)>> \o AttrsLine(n)
    [] n.kind = "DefinitionList" ->
         IF entering THEN <<>> ELSE <<W(NL)>> \o AttrsLine(n)
    [] n.kind = "DefinitionTerm" -> IF entering THEN <<>> ELSE <<W(NL)>>
    [] n.kind = "DefinitionDescription" ->
         IF entering
         THEN <<W(<<":", " ">>)>>
              \o DefinitionOps(RenderChildren(NewBuffer, n, 1, c))
         ELSE <<>>
    [] n.kind = "Table" ->
         IF entering
         THEN TableOps(n, TableCollect(n, 1, 1, NewBuffer,
                                       [j \in 1..Len(n.aligns) |-> 0],
                                       <<>>, <<>>, c))
         ELSE AttrsLine(n) \o <<W(NL)>>
    [] n.kind = "LineBlock" -> IF entering THEN <<>> ELSE <<W(NL)>>
    [] n.kind = "LineBlockItem" ->
         IF entering
         THEN <<W(<<"|", " ">>)>> \o [i \in 1..n.padding |-> W(<<" ">>)]
         ELSE <<W(NL)>>
    \* ListItem, FootnoteBacklink, TableHeader, TableRow, TableCell
    [] OTHER -> <<>>

(***************************************************************************)
(* The walk of the top-level call, one walker call per step                *)
(***************************************************************************)

\* the node of tree t at path p
RECURSIVE NodeAt(_, _)
NodeAt(t, p) == IF p = <<>> THEN t ELSE NodeAt(t.ch[Head(p)], Tail(p))

\* the path of the parent
Front(p) == SubSeq(p, 1, Len(p) - 1)

\* the sibling context of the node at path p
PrevKindAt(p) ==
  IF p = <<>> THEN "none" ELSE PrevKind(NodeAt(root, Front(p)), p[Len(p)])

HasNextAt(p) ==
  IF p = <<>> THEN FALSE ELSE HasNext(NodeAt(root, Front(p)), p[Len(p)])

\* the walker's call at the walk's position, run on the writer
Visited(entering) ==
  Exec(Visit(NodeAt(root, path), entering, PrevKindAt(path), HasNextAt(path),
             cfg), w)

\* the history entry of a walker call that took the writer from w to w2
LogEntry(entering, w2) ==
  [path |-> path, kind |-> NodeAt(root, path).kind, entering |-> entering,
   from |-> Len(w.out), to |-> Len(w2.out), attempts |-> w.attempts]

\* where ast.Walk goes after the walker's call on entry left the writer w2
Entered(w2) ==
  /\ w' = w2
  /\ log' = Append(log, LogEntry(TRUE, w2))
  /\ IF Halted(w2)
     THEN pc' = "return" /\ UNCHANGED <<path, phase>>
     ELSE /\ pc' = "walk"
          /\ IF SkipChildren(NodeAt(root, path)) \/ NodeAt(root, path).ch = <<>>
             THEN phase' = "exit" /\ path' = path
             ELSE phase' = "enter" /\ path' = Append(path, 1)

\* where ast.Walk goes after the walker's call on exit left the writer w2:
\* the next sibling, or the parent's exit, or it returns
Exited(w2) ==
  /\ w' = w2
  /\ log' = Append(log, LogEntry(FALSE, w2))
  /\ IF Halted(w2) \/ path = <<>>
     THEN pc' = "return" /\ UNCHANGED <<path, phase>>
     ELSE /\ pc' = "walk"
          /\ IF HasNextAt(path)
             THEN /\ phase' = "enter"
                  /\ path' = Append(Front(path), path[Len(path)] + 1)
             ELSE phase' = "exit" /\ path' = Front(path)

\* walker(n, true)
Enter ==
  /\ pc = "walk"
  /\ phase = "enter"
  /\ Entered(Visited(TRUE))
  /\ UNCHANGED <<root, cfg, cfg0, failAt, sticky, encOk, result, cli>>

\* walker(n, false)
Exit ==
  /\ pc = "walk"
  /\ phase = "exit"
  /\ Exited(Visited(FALSE))
  /\ UNCHANGED <<root, cfg, cfg0, failAt, sticky, encOk, result, cli>>

\* ast.Walk has returned or a panic unwinds it: the deferred recover runs
\* and Render returns err
Return ==
  /\ pc = "return"
  /\ pc' = "done"
  /\ result' = Recover(w)
  /\ UNCHANGED <<root, cfg, cfg0, failAt, sticky, encOk, path, phase, w, log,
                 cli>>

Next == Enter \/ Exit \/ Return

(***************************************************************************)
(* The documents and settings the calls are made with                      *)
(***************************************************************************)

Txt(s) == [Node("Text", <<>>) EXCEPT !.value = s]
Str(s, code) == [Node("String", <<>>) EXCEPT !.value = s, !.code = code]
Para(ch) == Node("Paragraph", ch)
TextBlock(ch) == Node("TextBlock", ch)
Emph(level, ch) == [Node("Emphasis", ch) EXCEPT !.level = level]
LinkTo(dest, ch) == [Node("Link", ch) EXCEPT !.value = dest]
Heading(level, lines, ch) ==
  [Node("Heading", ch) EXCEPT !.level = level, !.lines = lines]
Item(ch) == Node("ListItem", ch)
List(marker, start, tight, items) ==
  [Node("List", items) EXCEPT !.marker = marker, !.start = start,
                              !.tight = tight]
Cell(ch) == Node("TableCell", ch)
Table(aligns, rows) == [Node("Table", rows) EXCEPT !.aligns = aligns]
Doc(meta, ch) == [Node("Document", ch) EXCEPT !.meta = meta]

\* the sequences over S of length 1..n
SeqsUpTo(S, n) == UNION {[1..k -> S] : k \in 1..n}

\* the metadata mapping {t: x}, as the YAML encoder writes it
MetaYaml == <<"t", ":", " ", "x", "\n">>

\* the tree goldmark parses from "# Title\nParagraph *em **bold*** [link](/)."
ExampleDoc ==
  Doc(<<>>,
      <<Heading(1, <<(<<"T", "i", "t", "l", "e">>)>>,
                <<Txt(<<"T", "i", "t", "l", "e">>)>>),
        Para(<<Txt(<<"P", "a", "r", "a", "g", "r", "a", "p", "h", " ">>),
               Emph(1, <<Txt(<<"e", "m", " ">>),
                         Emph(2, <<Txt(<<"b", "o", "l", "d">>)>>)>>),
               Txt(<<" ">>),
               LinkTo(<<"/">>, <<Txt(<<"l", "i", "n", "k">>)>>),
               Txt(<<".">>)>>)>>)

\* bounds of the model
MaxFailAt == 12
MaxItems == 2
MaxLines == 2
MaxRows == 2

\* a tight list of k items between two paragraphs, with or without metadata
FailDoc(meta, k) ==
  Doc(meta,
      <<Para(<<Txt(<<"a">>)>>),
        List("-", 0, TRUE, [i \in 1..k |-> Item(<<TextBlock(<<Txt(<<"i">>)>>)>>)]),
        Para(<<Txt(<<"z">>)>>)>>)

\* the documents rendered into a sink that may fail
FailDocs ==
  {FailDoc(meta, k) : meta \in {<<>>, MetaYaml}, k \in 1..MaxItems}
  \cup {ExampleDoc, Doc(MetaYaml, <<>>)}

\* headings: the source lines a heading may have
HeadingLineChoices ==
  {<<"T", "i", "t", "l", "e">>, <<"a", " ", "\n">>, <<"U+E9", "b", "\n">>}

HeadingLineSeqs == {<<>>} \cup SeqsUpTo(HeadingLineChoices, MaxLines)

\* a heading with the given source lines, its text one Text node per line
HeadingOf(level, ls) ==
  Heading(level, ls,
          [i \in 1..Len(ls) |->
             [Txt(TrimSpace(ls[i])) EXCEPT !.soft = i < Len(ls)]])

HeadingDocs ==
  {Doc(<<>>, <<HeadingOf(l, ls), Para(<<Txt(<<"p">>)>>)>>) :
     l \in 1..3, ls \in HeadingLineSeqs}

HeadingCfgs ==
  {[DefaultCfg EXCEPT !.STXHeader = s, !.LineBreak = b] :
     s \in BOOLEAN, b \in BOOLEAN}

\* lists: the block holding an item's text (a tight list holds TextBlocks)
ItemBlock(tight, ch) == IF tight THEN TextBlock(ch) ELSE Para(ch)

HardBreak(s) == [Txt(s) EXCEPT !.soft = TRUE, !.hard = TRUE]

\* the children an item may have
ItemChoices(tight) ==
  {<<ItemBlock(tight, <<Txt(<<"a">>)>>)>>,
   <<ItemBlock(tight, <<HardBreak(<<"a">>), Txt(<<"b">>)>>)>>,
   <<ItemBlock(tight, <<Txt(<<"a">>)>>), ItemBlock(tight, <<Txt(<<"b">>)>>)>>,
   <<ItemBlock(tight, <<Txt(<<"a">>)>>),
     List("*", 0, TRUE, <<Item(<<TextBlock(<<HardBreak(<<"c">>),
                                             Txt(<<"d">>)>>)>>)>>)>>}

ListDocs ==
  {Doc(<<>>, <<List(m, st, t, [i \in 1..Len(its) |-> Item(its[i])])>>) :
     m \in {"-", "."}, st \in {0, 9}, t \in BOOLEAN,
     its \in SeqsUpTo(ItemChoices(TRUE) \cup ItemChoices(FALSE), MaxItems)}

ListCfgs == {[DefaultCfg EXCEPT !.UseListMarker = u] : u \in BOOLEAN}

\* tables of two columns: the texts a cell may hold
CellTexts == {<<>>, <<"a", "b">>, <<"U+E9", "U+44F", "x">>}

CellOf(text) == IF text = <<>> THEN Cell(<<>>) ELSE Cell(<<Txt(text)>>)

RowOf(kind, texts) == Node(kind, [j \in 1..Len(texts) |-> CellOf(texts[j])])

TableAligns ==
  {<<"none", "left">>, <<"right", "center">>, <<"center", "none">>,
   <<"left", "right">>}

TableOf(aligns, rows) ==
  Table(aligns, [i \in 1..Len(rows) |->
                   RowOf(IF i = 1 THEN "TableHeader" ELSE "TableRow", rows[i])])

TableDocs ==
  {Doc(<<>>, <<TableOf(al, rows)>>) :
     al \in TableAligns, rows \in SeqsUpTo([1..2 -> CellTexts], MaxRows)}

\* strings: literal text with and without entities
EntityTexts ==
  {<<"&", "m", "d", "a", "s", "h", ";">>,
   <<"x", "&", "h", "e", "l", "l", "i", "p", ";", "&", "m", "d", "a", "s", "h", ";">>,
   <<"&", "a", "m", "p", ";">>,
   <<"&", "n", "b", "s", "p", ";", "&", "l", "s", "q", "u", "o", ";">>,
   <<"&", "a", "l", "e", "p", "h", ";", "y">>,
   <<"&", "m", "d", "a", "s", "h">>,
   <<"&", "&", "n", "d", "a", "s", "h", ";", ";">>,
   <<"p", "l", "a", "i", "n">>}

StringDocs ==
  {Doc(<<>>, <<Para(<<Txt(t1), Str(t2, code)>>)>>) :
     t1 \in EntityTexts, t2 \in EntityTexts, code \in BOOLEAN}

EntityCfgs ==
  {[DefaultCfg EXCEPT !.EntityReplacement = t] :
     t \in {DefaultEntityReplacement, CustomEntityReplacement,
            NoEntityReplacement}}

\* inline markup: nested emphasis of both levels
InlineDocs ==
  {Doc(<<>>, <<Para(<<Txt(<<"a">>),
                      Emph(l1, <<Txt(<<"b">>), Emph(l2, <<Txt(<<"c">>)>>)>>)>>)>>) :
     l1 \in 1..2, l2 \in 1..2}
  \cup {ExampleDoc}

\* blockquotes: a quote around the given children
Quote1(ch) == Node("Blockquote", ch)

\* a blockquote of one of the choices of children, alone or inside one or
\* two more
QuoteDocs ==
  LET choices ==
        {<<Para(<<Txt(<<"q">>)>>)>>,
         <<Para(<<HardBreak(<<"q">>), Txt(<<"r">>)>>)>>,
         <<Para(<<Txt(<<"q">>)>>), Para(<<Txt(<<"r">>)>>)>>,
         <<List("-", 0, TRUE, <<Item(<<TextBlock(<<HardBreak(<<"c">>),
                                                   Txt(<<"d">>)>>)>>)>>)>>,
         <<[Node("FencedCodeBlock", <<>>)
              EXCEPT !.lines = <<(<<">", "c", "\n">>)>>]>>}
  IN {Doc(<<>>, <<q, Para(<<Txt(<<"z">>)>>)>>) :
        q \in UNION {{Quote1(ch), Quote1(<<Quote1(ch)>>),
                      Quote1(<<Quote1(<<Quote1(ch)>>)>>),
                      Quote1(<<Para(<<Txt(<<"p">>)>>), Quote1(ch)>>)} :
                       ch \in choices}}

\* raw HTML: an inline tag and an HTML block, with or without a closure line
RawHTML(text) == [Node("RawHTML", <<>>) EXCEPT !.lines = <<text>>]

HTMLBlock(lines, closure) ==
  [Node("HTMLBlock", <<>>) EXCEPT !.lines = lines, !.closure = closure]

\* documents of up to two blocks that hold raw HTML, before a paragraph
HtmlDocs ==
  LET blocks ==
        {<<>>,
         <<Para(<<Txt(<<"a">>), RawHTML(<<"<", "i", ">">>), Txt(<<"b">>)>>)>>,
         <<HTMLBlock(<<(<<"<", "p", ">", "\n">>)>>, <<>>)>>,
         <<HTMLBlock(<<(<<"<", "!", "-", "-", "\n">>), <<"x", "\n">>>>,
                     <<"-", "-", ">", "\n">>)>>}
  IN {Doc(<<>>, b1 \o b2 \o <<Para(<<Txt(<<"z">>)>>)>>) :
        b1 \in blocks, b2 \in blocks}

Footnote(index, ch) == [Node("Footnote", ch) EXCEPT !.index = index]

\* footnotes and definition lists, over the blocks a footnote or a
\* definition description may hold
NoteDocs ==
  LET choices ==
        {<<Para(<<Txt(<<"f">>)>>)>>,
         <<Para(<<HardBreak(<<"f">>), Txt(<<"g">>)>>)>>,
         <<Para(<<Txt(<<"f">>)>>), Para(<<Txt(<<"g">>)>>)>>,
         <<Para(<<Txt(<<"f">>)>>), Quote1(<<Para(<<Txt(<<"q">>)>>)>>)>>}
      link == [Node("FootnoteLink", <<>>) EXCEPT !.index = 1]
  IN {Doc(<<>>, <<Para(<<Txt(<<"a">>), link>>),
                  Node("FootnoteList", <<Footnote(1, ch)>>)>>) :
        ch \in choices}
     \cup {Doc(<<>>, <<Node("DefinitionList",
                             <<Node("DefinitionTerm", <<Txt(<<"t">>)>>),
                               Node("DefinitionDescription", ch)>>),
                        Para(<<Txt(<<"z">>)>>)>>) :
             ch \in choices}

\* the documents and settings of the calls whose sink does not fail
FormatInputs ==
  (HeadingDocs \X HeadingCfgs) \cup (ListDocs \X ListCfgs)
  \cup (TableDocs \X {DefaultCfg}) \cup (StringDocs \X EntityCfgs)
  \cup (InlineDocs \X {DefaultCfg}) \cup (QuoteDocs \X {DefaultCfg})
  \cup (HtmlDocs \X {[DefaultCfg EXCEPT !.SkipHTML = h] : h \in BOOLEAN})
  \cup (NoteDocs \X {DefaultCfg})

(***************************************************************************)
(* The command-line front end: the search for the end of the front matter  *)
(***************************************************************************)

\* the number of chunks an input of the front end is made of, at most
MaxChunks == 3

\* bytes.HasPrefix(s, prefix)
HasPrefix(s, prefix) ==
  Len(s) >= Len(prefix) /\ SubSeq(s, 1, Len(prefix)) = prefix

\* bytes.Index(s, sep): the offset of the first occurrence of sep in s, or
\* -1
Index(s, sep) ==
  LET hits == {k \in 0..(Len(s) - Len(sep)) :
                 SubSeq(s, k + 1, k + Len(sep)) = sep}
  IN IF hits = {} THEN -1
     ELSE CHOOSE k \in hits : \A m \in hits : k <= m

\* whether s[a:b] is a slice expression Go evaluates without a panic
InBounds(s, a, b) == 0 <= a /\ a <= b /\ b <= Len(s)

\* s[a:b]
Slice(s, a, b) == SubSeq(s, a + 1, b)

FrontMatterStart == <<"-", "-", "-", "\n">>

\* `for _, marker := range []string{"\n---", "\n..."} { end =
\*  bytes.Index(rest, marker); if end != -1 { break } }`
SearchEnd(rest) ==
  IF Index(rest, <<"\n", "-", "-", "-">>) # -1
  THEN Index(rest, <<"\n", "-", "-", "-">>)
  ELSE Index(rest, <<"\n", ".", ".", ".">>)

\* the mutant of NextStart: the offset goes one byte beyond the marker
NextStartBeyond(start, end) == start + end + 5

\* `start += end + 4`
NextStart(start, end) == start + end + 4

\* whether yaml.Unmarshal may decode text into one document: the decoder
\* is not part of the program; an empty text gives no document, any other
\* text may or may not decode
YamlOutcomes(text) == IF text = <<>> THEN {FALSE} ELSE BOOLEAN

\* the front end before it has read its input, and while Render is looked
\* at alone
CliIdle ==
  [pc |-> "idle", source |-> <<>>, input |-> <<>>, skipMetadata |-> FALSE,
   start |-> 0, end |-> 0, out |-> <<>>, passed |-> <<>>]

\* main, after io.ReadAll: `if bytes.HasPrefix(source, []byte("---\n"))`
\* and `start = 4`
CliRead(source, skip) ==
  [pc |-> IF HasPrefix(source, FrontMatterStart) THEN "research" ELSE "format",
   source |-> source, input |-> source, skipMetadata |-> skip,
   start |-> 4, end |-> 0, out |-> <<>>, passed |-> <<>>]

\* label research: the loop over the markers, then `if end != -1`
Research ==
  /\ cli.pc = "research"
  /\ IF ~InBounds(cli.source, cli.start, Len(cli.source))
     THEN cli' = [cli EXCEPT !.pc = "panic"]
     ELSE LET end == SearchEnd(Slice(cli.source, cli.start, Len(cli.source)))
          IN cli' = [cli EXCEPT !.end = end,
                                !.pc = IF end # -1 THEN "decode" ELSE "format"]
  /\ UNCHANGED <<root, cfg, cfg0, failAt, sticky, encOk, path, phase, pc, w,
                 log, result>>

\* yaml.Unmarshal(source[4:start+end], &meta) fails or gives no single
\* document: `start += end + 4; goto research`
Retry ==
  /\ cli.pc = "decode"
  /\ IF ~InBounds(cli.source, 4, cli.start + cli.end)
     THEN cli' = [cli EXCEPT !.pc = "panic"]
     ELSE /\ FALSE \in YamlOutcomes(Slice(cli.source, 4, cli.start + cli.end))
          /\ cli' = [cli EXCEPT !.start = NextStart(cli.start, cli.end),
                                !.pc = "research"]
  /\ UNCHANGED <<root, cfg, cfg0, failAt, sticky, encOk, path, phase, pc, w,
                 log, result>>

\* yaml.Unmarshal gives one document: the front matter is cut off the
\* source and, unless skipMetadata is set, written again; log.Fatal when
\* enc.Encode fails
Accept ==
  /\ cli.pc = "decode"
  /\ InBounds(cli.source, 4, cli.start + cli.end)
  /\ TRUE \in YamlOutcomes(Slice(cli.source, 4, cli.start + cli.end))
  /\ IF ~InBounds(cli.source, cli.start + cli.end + 4, Len(cli.source))
     THEN cli' = [cli EXCEPT !.pc = "panic"]
     ELSE \E ok \in BOOLEAN :
            LET meta == Slice(cli.source, 4, cli.start + cli.end)
                rest == Slice(cli.source, cli.start + cli.end + 4,
                              Len(cli.source))
            IN cli' =
                 IF cli.skipMetadata
                 THEN [cli EXCEPT !.source = rest, !.pc = "format"]
                 ELSE IF ~ok
                 THEN [cli EXCEPT !.source = rest, !.pc = "fatal",
                                  !.out = <<W(FrontMatterStart)>>]
                 ELSE [cli EXCEPT !.source = rest, !.pc = "format",
                                  !.out = <<W(FrontMatterStart), OpEncode(meta),
                                            OpClose, W(FrontMatterStart)>>]
  /\ UNCHANGED <<root, cfg, cfg0, failAt, sticky, encOk, path, phase, pc, w,
                 log, result>>

\* `err = formatter.Format(source, out); if err != nil { log.Fatal(err) }`
CallFormat ==
  /\ cli.pc = "format"
  /\ \E ok \in BOOLEAN :
       cli' = [cli EXCEPT !.passed = cli.source,
                          !.pc = IF ok THEN "done" ELSE "fatal"]
  /\ UNCHANGED <<root, cfg, cfg0, failAt, sticky, encOk, path, phase, pc, w,
                 log, result>>

\* the texts of up to n chunks; a chunk is text, an empty line, or one of
\* the two markers that end a front matter
RECURSIVE ChunkTexts(_)
ChunkTexts(n) ==
  IF n = 0 THEN {<<>>}
  ELSE ChunkTexts(n - 1)
       \cup {t \o c : t \in ChunkTexts(n - 1),
                      c \in {<<"k">>, <<"\n">>, <<"\n", "-", "-", "-">>,
                             <<"\n", ".", ".", ".">>}}

\* what the front end reads from its standard input: texts that begin a
\* front matter, and some that do not
MainInputs ==
  {FrontMatterStart \o t : t \in ChunkTexts(MaxChunks)} \cup ChunkTexts(1)

\* main with the flags parsed and the input read; no Render call is looked
\* at
InitMain ==
  /\ \E source \in MainInputs, skip \in BOOLEAN : cli = CliRead(source, skip)
  /\ root = Doc(<<>>, <<>>)
  /\ cfg = [DefaultCfg EXCEPT !.STXHeader = FALSE]
  /\ cfg0 = cfg
  /\ failAt = 0
  /\ sticky = FALSE
  /\ encOk = TRUE
  /\ path = <<>>
  /\ phase = "enter"
  /\ pc = "idle"
  /\ w = NewWriter(FALSE)
  /\ log = <<>>
  /\ result = "none"

NextMain == Research \/ Retry \/ Accept \/ CallFormat

\* main runs on its own: it takes its next step as long as it has one
SpecMain == InitMain /\ [][NextMain]_vars /\ WF_vars(NextMain)

\* the start of a Render call
Start ==
  /\ cli = CliIdle
  /\ cfg0 = cfg
  /\ path = <<>>
  /\ phase = "enter"
  /\ pc = "walk"
  /\ w = NewWriter(FALSE)
  /\ log = <<>>
  /\ result = "none"

\* Render(w, source, doc) with the default settings on a sink that may fail
Init ==
  /\ root \in FailDocs
  /\ cfg = DefaultCfg
  /\ failAt \in 0..MaxFailAt
  /\ sticky \in BOOLEAN
  /\ encOk \in BOOLEAN
  /\ Start

Spec == Init /\ [][Next]_vars

\* Render(w, source, doc) on a sink that takes every write
InitFormat ==
  /\ \E in \in FormatInputs : root = in[1] /\ cfg = in[2]
  /\ failAt = 0
  /\ sticky = FALSE
  /\ encOk = TRUE
  /\ Start

SpecFormat == InitFormat /\ [][Next]_vars

\* blocks whose rendering may panic without a write having failed: a table
\* whose row has more cells than the table has alignments, a heading
\* without source lines (it panics with setext headings in hard-wrap mode);
\* and two blocks that render
FaultBlocks ==
  {TableOf(<<"left">>, <<(<<(<<"a", "b">>), <<>>>>)>>),
   TableOf(<<"none">>, <<(<<(<<"a", "b">>)>>), <<(<<"a", "b">>), <<"a", "b">>>>>>),
   HeadingOf(1, <<>>),
   HeadingOf(2, <<(<<"T", "i", "t", "l", "e">>)>>),
   TableOf(<<"left", "none">>, <<(<<(<<"a", "b">>), <<>>>>)>>)}

\* a block as it stands, or inside the containers that render their
\* children with nested Render calls
FaultWraps(b) ==
  {b,
   Quote1(<<b>>),
   Quote1(<<Para(<<Txt(<<"q">>)>>), Quote1(<<b>>)>>),
   List("-", 0, FALSE, <<Item(<<Para(<<Txt(<<"i">>)>>)>>), Item(<<b>>)>>),
   Node("FootnoteList", <<Footnote(1, <<b>>)>>),
   Node("DefinitionList", <<Node("DefinitionTerm", <<Txt(<<"t">>)>>),
                            Node("DefinitionDescription", <<b>>)>>)}

FaultDocs ==
  {Doc(<<>>, <<Para(<<Txt(<<"a">>)>>), x, Para(<<Txt(<<"z">>)>>)>>) :
     x \in UNION {FaultWraps(b) : b \in FaultBlocks}}

\* Render(w, source, doc) of a document that may panic, on a sink that may
\* fail
InitFault ==
  /\ root \in FaultDocs
  /\ cfg \in HeadingCfgs
  /\ failAt \in 0..MaxFailAt
  /\ sticky = FALSE
  /\ encOk = TRUE
  /\ Start

SpecFault == InitFault /\ [][Next]_vars

\* the settings another caller may assign while a Render call is running
SharedCfgs ==
  {DefaultCfg, [DefaultCfg EXCEPT !.STXHeader = FALSE],
   [DefaultCfg EXCEPT !.LineBreak = TRUE]}

\* the documents rendered while the settings may change
SharedDocs ==
  {Doc(<<>>, <<HeadingOf(l, <<(<<"T", "i", "t", "l", "e">>)>>),
               Para(<<[Txt(<<"a">>) EXCEPT !.soft = TRUE], Txt(<<"b">>)>>)>>) :
     l \in 1..3}
  \cup {ExampleDoc}

\* another goroutine assigns the package variables between two calls of
\* the walker (once per Render call): Render reads them where it uses
\* them, without a copy and without synchronization
Configure ==
  /\ pc = "walk"
  /\ cfg = cfg0
  /\ \E c \in SharedCfgs \ {cfg} : cfg' = c
  /\ UNCHANGED <<root, cfg0, failAt, sticky, encOk, path, phase, pc, w, log,
                 result, cli>>

\* Render(w, source, doc) while another caller may change the settings
InitShared ==
  /\ root \in SharedDocs
  /\ cfg \in SharedCfgs
  /\ failAt = 0
  /\ sticky = FALSE
  /\ encOk = TRUE
  /\ Start

NextShared == Next \/ Configure

SpecShared == InitShared /\ [][NextShared]_vars

\* the attribute sets a node may carry, in the order Attributes() gives
AttrSets ==
  {<<(<<"id", <<"i">>>>)>>,
   <<(<<"class", <<"c", " ", " ", "d">>>>)>>,
   <<(<<"id", <<"i">>>>), (<<"class", <<"c">>>>)>>,
   <<(<<"k", <<"v">>>>)>>,
   <<(<<"k", <<"v">>>>), (<<"id", <<"i">>>>)>>,
   <<(<<"k", <<"v">>>>), (<<"m", <<"w">>>>)>>}

\* the nodes that may carry attributes, one of each kind
AttrNodes ==
  {HeadingOf(1, <<(<<"T", "i", "t", "l", "e">>)>>),
   HeadingOf(3, <<(<<"T", "i", "t", "l", "e">>)>>),
   Para(<<Txt(<<"a">>)>>),
   Node("Blockquote", <<Para(<<Txt(<<"q">>)>>)>>),
   List("-", 0, TRUE, <<Item(<<TextBlock(<<Txt(<<"i">>)>>)>>)>>),
   [Node("FencedCodeBlock", <<>>) EXCEPT !.lines = <<(<<"c", "\n">>)>>],
   Node("ThematicBreak", <<>>),
   TableOf(<<"none", "left">>, <<(<<(<<"a", "b">>), <<>>>>)>>)}

\* the inline nodes that may carry attributes
AttrInlines ==
  {LinkTo(<<"/">>, <<Txt(<<"l">>)>>),
   [Node("Image", <<Txt(<<"l">>)>>) EXCEPT !.value = <<"/">>]}

\* documents with one node that carries attributes, before a paragraph
AttrDocs ==
  {Doc(<<>>, <<[n EXCEPT !.attrs = a], Para(<<Txt(<<"z">>)>>)>>) :
     n \in AttrNodes, a \in AttrSets}
  \cup {Doc(<<>>, <<Para(<<Txt(<<"a">>), [n EXCEPT !.attrs = a]>>)>>) :
          n \in AttrInlines, a \in AttrSets}

\* Render(w, source, doc) of a document with attributes
InitAttrs ==
  /\ root \in AttrDocs
  /\ cfg = DefaultCfg
  /\ failAt = 0
  /\ sticky = FALSE
  /\ encOk = TRUE
  /\ Start

SpecAttrs == InitAttrs /\ [][Next]_vars

(***************************************************************************)
(* Parsing the formatter's output again (Format: md.Parser().Parse), for   *)
(* output made of headings and paragraphs of plain text                    *)
(***************************************************************************)

\* a line without its line terminator
Chomp(line) ==
  IF line # <<>> /\ line[Len(line)] = "\n" THEN SubSeq(line, 1, Len(line) - 1)
  ELSE line

\* the blocks of a text: its maximal runs of non-blank lines, the lines
\* without their terminators (cur is the block being collected)
RECURSIVE BlocksOf(_, _)
BlocksOf(lines, cur) ==
  IF lines = <<>> THEN (IF cur = <<>> THEN <<>> ELSE <<cur>>)
  ELSE IF TrimSpace(Head(lines)) = <<>>
  THEN (IF cur = <<>> THEN <<>> ELSE <<cur>>) \o BlocksOf(Tail(lines), <<>>)
  ELSE BlocksOf(Tail(lines), Append(cur, Chomp(Head(lines))))

\* whether a line is a setext underline of the character c
IsUnderline(line, c) == line # <<>> /\ \A k \in 1..Len(line) : line[k] = c

\* the number of `#` characters an ATX heading line opens with (0: the
\* line opens no ATX heading)
ATXLevel(line) ==
  IF \E k \in 1..6 : /\ Len(line) > k
                     /\ line[k + 1] = " "
                     /\ \A m \in 1..k : line[m] = "#"
  THEN CHOOSE k \in 1..6 : /\ Len(line) > k
                           /\ line[k + 1] = " "
                           /\ \A m \in 1..k : line[m] = "#"
  ELSE 0

\* the source lines of a block as a node keeps them: every line but the
\* last with its terminator
SourceLines(ls) ==
  [i \in 1..Len(ls) |-> IF i < Len(ls) THEN ls[i] \o <<"\n">> ELSE ls[i]]

\* the inline content of a block of plain text: one Text node per line,
\* every line but the last ending in a soft line break
TextNodes(ls) ==
  [i \in 1..Len(ls) |->
     [Node("Text", <<>>) EXCEPT !.value = TrimSpace(ls[i]),
                                !.soft = i < Len(ls)]]

\* the nodes a block of plain text is parsed to: a setext heading (a
\* paragraph followed by an underline), an ATX heading, or a paragraph
ParseBlock(b) ==
  LET front == SubSeq(b, 1, Len(b) - 1)
      last == b[Len(b)]
      level == ATXLevel(b[1])
      title == SubSeq(b[1], level + 2, Len(b[1]))
  IN CASE level > 0 /\ Len(b) = 1 ->
            <<[Node("Heading", TextNodes(<<title>>))
                 EXCEPT !.level = level, !.lines = <<title>>]>>
       [] level = 0 /\ Len(b) >= 2 /\ IsUnderline(last, "=") ->
            <<[Node("Heading", TextNodes(front))
                 EXCEPT !.level = 1, !.lines = SourceLines(front)]>>
       [] level = 0 /\ Len(b) >= 2 /\ IsUnderline(last, "-") ->
            <<[Node("Heading", TextNodes(front))
                 EXCEPT !.level = 2, !.lines = SourceLines(front)]>>
       [] OTHER -> <<Node("Paragraph", TextNodes(b))>>

\* md.Parser().Parse(text.NewReader(source)): the document of a text of
\* headings and paragraphs
Parse(source) ==
  LET blocks == BlocksOf(SplitAfter(source), <<>>)
  IN Node("Document", Flatten([i \in 1..Len(blocks) |-> ParseBlock(blocks[i])]))

\* Format(source, w) on a sink that takes every write: what it writes
Format(source, c) == Render(NewBuffer, Parse(source), "none", FALSE, c).out

(***************************************************************************)
(* Properties                                                              *)
(***************************************************************************)

\* what the i-th walker call of the history wrote to the sink
Span(i) == SubSeq(w.out, log[i].from + 1, log[i].to)

\* the node of the i-th walker call of the history
Visitee(i) == NodeAt(root, log[i].path)

\* whether text p occurs in text s
Occurs(p, s) ==
  \E k \in 0..(Len(s) - Len(p)) : SubSeq(s, k + 1, k + Len(p)) = p

\* the text a sequence of write steps writes when every write succeeds
OpsText(ops) == Flatten([i \in 1..Len(ops) |-> ops[i].s])

(* C1: if a write to the sink has failed, at any point of the rendering,    *)
(* the Render call returns a non-nil error.                                 *)
C1_FailedWriteReturnsError ==
  (pc = "done" /\ w.failedAt # 0) => result # "nil"

\* the sink failed inside the list, after the marker and text of its first
\* item were written, and Render returned the error
C1_FailedInsideList ==
  /\ pc = "done"
  /\ result = "write"
  /\ w.failedAt # 0
  /\ log[Len(log)].kind = "List"
  /\ Len(Visitee(Len(log)).ch) = 2
  /\ Occurs(<<"-", " ", "i", "\n">>, Span(Len(log)))

(* C2: once a write to the sink has failed, no further write to the sink    *)
(* is attempted, no walker call is made on a later node, and the bytes      *)
(* written before the failure stay in the sink unchanged.                   *)
C2_NothingAfterFailedWrite ==
  w.failedAt # 0 =>
    /\ w.attempts = w.failedAt
    /\ w.out = w.outAtFail
    /\ \A i \in 1..Len(log) : log[i].attempts < w.failedAt

C4_MetadataBlockOnce ==
  (pc = "done" /\ result = "nil" /\ root.meta # <<>>) =>
    /\ w.encodes = 1
    /\ Span(1) = <<"-", "-", "-", "\n">> \o root.meta \o <<"-", "-", "-", "\n">>
    /\ log[Len(log)].from = log[Len(log)].to

\* the lines of the end-to-end example, without the trailing newlines
ExampleText ==
  <<"T", "i", "t", "l", "e", "\n", "=", "=", "=", "=", "=", "\n", "\n",
    "P", "a", "r", "a", "g", "r", "a", "p", "h", " ", "_", "e", "m", " ",
    "*", "*", "b", "o", "l", "d", "*", "*", "_", " ", "[", "l", "i", "n",
    "k", "]", "(", "/", ")", ".">>

EnterOf(i) ==
  CHOOSE j \in 1..i : log[j].path = log[i].path /\ log[j].entering

RECURSIVE TrimmedRunes(_)
TrimmedRunes(lines) ==
  IF lines = <<>> THEN 0
  ELSE Len(TrimRightSpace(Head(lines))) + TrimmedRunes(Tail(lines))

\* the underline length the heading n is to get under settings c
UnderlineLength(n, c) ==
  IF c.LineBreak THEN Len(n.lines[Len(n.lines)]) ELSE TrimmedRunes(n.lines)

\* the walker calls that write a setext underline: the exit of a heading
\* of level 1 or 2 with setext headings on (in hard-wrap mode the heading
\* needs a source line)
WritesUnderline(i) ==
  /\ log[i].kind = "Heading"
  /\ ~log[i].entering
  /\ cfg.STXHeader
  /\ Visitee(i).level \in {1, 2}
  /\ (cfg.LineBreak => Visitee(i).lines # <<>>)

(* C7: the setext underline of a heading of level 1 or 2 has exactly L      *)
(* characters, all `=` for level 1 and all `-` for level 2, where L is the  *)
(* sum of the rune counts of the heading's source lines without their       *)
(* trailing whitespace (reflow mode) or the rune count of the last source   *)
(* line (hard-wrap mode); the single source line `Title` gives 5.           *)
C7_UnderlineLength ==
  \A i \in 1..Len(log) :
    WritesUnderline(i) =>
      LET n == Visitee(i)
          L == UnderlineLength(n, cfg)
          char == IF n.level = 1 THEN "=" ELSE "-"
      IN /\ Span(i) = <<"\n">> \o [k \in 1..L |-> char] \o <<"\n", "\n">>
         /\ (n.lines = <<(<<"T", "i", "t", "l", "e">>)>> => Len(Span(i)) = 5 + 3)

\* a level-2 heading of two source lines, one of them with a rune of two
\* bytes and trailing whitespace, has been underlined in reflow mode
C7_TwoLineHeadingUnderlined ==
  /\ pc = "done"
  /\ ~cfg.LineBreak
  /\ \E i \in 1..Len(log) :
       /\ WritesUnderline(i)
       /\ Visitee(i).level = 2
       /\ Visitee(i).lines = <<(<<"U+E9", "b", "\n">>), (<<"a", " ", "\n">>)>>
       /\ Span(i) = <<"\n", "-", "-", "-", "\n", "\n">>

\* the text of a table cell of the inputs (a cell holds one Text node at
\* most)
CellText(cell) == IF cell.ch = <<>> THEN <<>> ELSE cell.ch[1].value

\* W[j]: the largest rune count among the cells of column j of table t
ColumnWidth(t, j) ==
  LET counts == {Len(CellText(t.ch[r].ch[j])) : r \in 1..Len(t.ch)}
  IN CHOOSE m \in counts : \A x \in counts : x <= m

\* the positions of the column borders of a line
Bars(line) == {k \in 1..Len(line) : line[k] = "|"}

\* the position of the j-th border of a line
BarAt(line, j) ==
  CHOOSE k \in Bars(line) : Cardinality({m \in Bars(line) : m < k}) = j - 1

\* the lines a table was written as
TableLines(i) == SelectSeq(SplitAfter(Span(i)), LAMBDA line : line # <<>>)

(* C8: in every line of a rendered table (the rows and the divider), the    *)
(* segment of column j, from its opening `|` up to the next `|`, is         *)
(* W[j] + 3 runes wide, W[j] being the largest rune count among the cells   *)
(* of column j: the columns of all lines are equally wide, whatever the     *)
(* byte lengths of the cells.                                               *)
C8_ColumnSegmentWidth ==
  \A i \in 1..Len(log) :
    (log[i].kind = "Table" /\ log[i].entering) =>
      LET t == Visitee(i)
          lines == TableLines(i)
      IN /\ Len(lines) = Len(t.ch) + 1
         /\ \A r \in 1..Len(lines) :
              /\ Cardinality(Bars(lines[r])) = Len(t.aligns) + 1
              /\ \A j \in 1..Len(t.aligns) :
                   BarAt(lines[r], j + 1) - BarAt(lines[r], j)
                     = ColumnWidth(t, j) + 3

\* a table has been written whose first column holds a cell of three runes
\* in five bytes and a shorter cell
C8_WideRuneTableRendered ==
  /\ pc = "done"
  /\ log[2].kind = "Table"
  /\ Len(root.ch[1].ch) = 2
  /\ CellText(root.ch[1].ch[1].ch[1]) = <<"a", "b">>
  /\ CellText(root.ch[1].ch[2].ch[1]) = <<"U+E9", "U+44F", "x">>
  /\ Occurs(<<"|", " ", "a", "b", " ", " ", "|">>, Span(2))

\* a line of an item's content as the list is to show it: i is the line's
\* number, spaces the indent of the list
ItemLine(line, i, spaces) ==
  IF i > 1 /\ line # <<>> /\ line[1] # "\n" THEN spaces \o line ELSE line

\* the lines of the trimmed content of the k-th item of list n
ItemContent(n, k) == TrimmedLines(RenderChildren(NewBuffer, n.ch[k], 1, cfg))

\* the k-th item of list n as the list is to show it: its marker, then its
\* content with the lines after the first indented by the given spaces
ItemText(n, k, spaces) ==
  LET lines == ItemContent(n, k)
      first == IF n.start = 0 THEN 1 ELSE n.start
  IN OpsText(ListMarkerOps(n, first + k - 1, cfg))
     \o Flatten([i \in 1..Len(lines) |-> ItemLine(lines[i], i, spaces)])
     \o (IF n.tight THEN <<"\n">> ELSE <<"\n", "\n">>)

(* C9: in a rendered list item, every non-empty line of the item's trimmed  *)
(* content after the first is prefixed with exactly 3 spaces when the list  *)
(* is ordered and exactly 2 spaces when it is unordered; the first line     *)
(* gets no indent.                                                          *)
C9_ContinuationIndent ==
  \A i \in 1..Len(log) :
    (log[i].kind = "List" /\ log[i].entering) =>
      LET n == Visitee(i)
          spaces == IF n.marker \in {".", ")"} THEN <<" ", " ", " ">>
                    ELSE <<" ", " ">>
      IN Span(i) = Flatten([k \in 1..Len(n.ch) |-> ItemText(n, k, spaces)])
                   \o (IF n.tight THEN <<"\n">> ELSE <<>>)

\* an ordered loose list has been written with an item of two lines, the
\* second indented by three spaces
C9_OrderedItemOfTwoLines ==
  /\ pc = "done"
  /\ log[2].kind = "List"
  /\ root.ch[1].marker = "."
  /\ ~root.ch[1].tight
  /\ Len(ItemContent(root.ch[1], 1)) = 2
  /\ Occurs(<<"a", "\\", "\n", " ", " ", " ", "b", "\n">>, Span(2))

\* whether s starts with the text k
StartsWith(s, k) == Len(s) >= Len(k) /\ SubSeq(s, 1, Len(k)) = k

\* text s with every occurrence of a key of keys replaced by the table's
\* value, from left to right
RECURSIVE ReplaceKeys(_, _, _)
ReplaceKeys(s, keys, table) ==
  IF s = <<>> THEN <<>>
  ELSE IF \E k \in keys : StartsWith(s, k)
  THEN LET k == CHOOSE k \in keys : StartsWith(s, k)
       IN table[k] \o ReplaceKeys(SubSeq(s, Len(k) + 1, Len(s)), keys, table)
  ELSE <<Head(s)>> \o ReplaceKeys(Tail(s), keys, table)

\* the keys of a table that are entities of 5 or 6 ASCII letters
EntityKeys(table) ==
  {k \in DOMAIN table :
     /\ Len(k) \in {7, 8}
     /\ k[1] = "&"
     /\ k[Len(k)] = ";"
     /\ \A m \in 2..(Len(k) - 1) : k[m] \in Alpha}

\* the walker calls that write literal text: the entry of a String or a
\* Text node
WritesLiteral(i) == log[i].kind \in {"String", "Text"} /\ log[i].entering

\* what the i-th call writes when the keys of keys are replaced in
\* code-flagged Strings and nowhere else (a Text node that ends a line
\* writes its line break after its text)
LiteralReplaced(i, keys) ==
  CASE log[i].kind = "String" /\ Visitee(i).code ->
         Span(i) = ReplaceKeys(Visitee(i).value, keys, cfg.EntityReplacement)
    [] log[i].kind = "Text" /\ Visitee(i).soft ->
         StartsWith(Span(i), Visitee(i).value)
    [] OTHER -> Span(i) = Visitee(i).value

(* C10, as stated: a code-flagged String has every occurrence of a key of   *)
(* the configured table replaced by the table's value and everything else   *)
(* left unchanged; other Strings and Text nodes are written untouched.      *)
C10_EveryKeyReplaced ==
  \A i \in 1..Len(log) :
    WritesLiteral(i) => LiteralReplaced(i, DOMAIN cfg.EntityReplacement)

(* C10, amended: a code-flagged String has every occurrence of a key of     *)
(* the configured table that is an entity of 5 or 6 ASCII letters replaced  *)
(* by the table's value and everything else, the other keys of the table    *)
(* too, left unchanged; other Strings and Text nodes are written untouched. *)
C10_EntityKeysReplaced ==
  \A i \in 1..Len(log) :
    WritesLiteral(i) => LiteralReplaced(i, EntityKeys(cfg.EntityReplacement))

\* a code-flagged String with two entities of the default table has been
\* written with both replaced, after a Text node with an entity left as is
C10_CodeStringReplaced ==
  /\ pc = "done"
  /\ cfg = DefaultCfg
  /\ \E i \in 3..Len(log) :
       /\ log[i].kind = "String"
       /\ Visitee(i).code
       /\ Span(i) = <<"x", ".", ".", ".", "-", "-", "-">>
       /\ log[i - 2].kind = "Text"
       /\ Span(i - 2) = <<"&", "m", "d", "a", "s", "h", ";">>

\* the trees whose output the parser is modelled for: a heading that is
\* written with a setext underline, in reflow mode, and a paragraph
Reparsed ==
  /\ pc = "done"
  /\ result = "nil"
  /\ cfg.STXHeader
  /\ ~cfg.LineBreak
  /\ root.ch # <<>>
  /\ root.ch[1].kind = "Heading"
  /\ root.ch[1].level \in {1, 2}
  /\ root.ch[1].lines # <<>>

(* C11: rendering is a fixed point under re-parsing: rendering the tree     *)
(* parsed from the output of a render gives that output again, byte for     *)
(* byte.                                                                    *)
C11_RenderParseRenderFixed ==
  Reparsed => Format(w.out, cfg) = w.out

(* C12: the output of a Render call is determined by the tree and the      *)
(* option values in force when the call starts; a change of an option by    *)
(* another caller while the render is in progress does not change what the  *)
(* render emits.                                                            *)
C12_OutputFixedAtCallStart ==
  pc = "done" => w.out = Render(NewBuffer, root, "none", FALSE, cfg0).out

\* the number of occurrences of rune c in text s
CountOf(c, s) == Cardinality({k \in 1..Len(s) : s[k] = c})

\* the tokens of an attribute set: `#id`, one `.word` per word of the
\* class, then `name="value"` for each remaining attribute
AttrTokens(n) ==
  LET rest == SelectSeq(n.attrs, LAMBDA a : a[1] \notin {"id", "class"})
      words == IF HasAttr(n, "class") THEN Fields(AttrValue(n, "class"))
               ELSE <<>>
  IN (IF HasAttr(n, "id") THEN <<(<<"#">> \o AttrValue(n, "id"))>> ELSE <<>>)
     \o [k \in 1..Len(words) |-> <<".">> \o words[k]]
     \o [k \in 1..Len(rest) |->
           <<rest[k][1], "=", "\"">> \o rest[k][2] \o <<"\"">>]

\* the attribute block a walker call wrote: its text from `{` to `}`
BlockIn(span) ==
  SubSeq(span, CHOOSE k \in 1..Len(span) : span[k] = "{",
               CHOOSE k \in 1..Len(span) : span[k] = "}")

(* C13: the attribute block of a node is `{`, the tokens `#id`, `.word`     *)
(* per class word and `name="value"` per remaining attribute, in this       *)
(* order and separated by exactly one space, and `}` right after the last   *)
(* token.                                                                   *)
C13_AttributeBlockFormat ==
  \A i \in 1..Len(log) :
    (Visitee(i).attrs # <<>> /\ CountOf("{", Span(i)) > 0) =>
      BlockIn(Span(i)) = <<"{">> \o Join(AttrTokens(Visitee(i)), <<" ">>) \o <<"}">>

\* the kinds of node the formatter is to write an attribute block for
AttrKinds ==
  {"Heading", "Paragraph", "Blockquote", "List", "FencedCodeBlock",
   "ThematicBreak", "Table", "Link", "Image"}

(* C14: every node that carries attributes gets exactly one `{...}` block,  *)
(* written by the walker call that leaves the node, after the node's        *)
(* content and children; the call that enters it, and the calls on its      *)
(* children, write none.                                                    *)
C14_OneTrailingAttributeBlock ==
  pc = "done" =>
    /\ CountOf("{", w.out) = 1
    /\ \A i \in 1..Len(log) :
         CountOf("{", Span(i)) > 0 =>
           /\ ~log[i].entering
           /\ Visitee(i).attrs # <<>>
           /\ Visitee(i).kind \in AttrKinds

\* k dashes
Dashes(k) == [m \in 1..k |-> "-"]

\* the divider of a column of width W[j] = width, by alignment
DividerSegment(width, align) ==
  <<"|">> \o (CASE align = "left" -> <<":">> \o Dashes(width + 1)
                [] align = "right" -> Dashes(width + 1) \o <<":">>
                [] align = "center" -> <<":">> \o Dashes(width) \o <<":">>
                [] OTHER -> Dashes(width + 2))

(* C15: a table with at least one row gets its divider row exactly once,    *)
(* as the line right after the header row: per column `|` and W[j] + 2      *)
(* characters (`:` and W[j]+1 dashes for Left, W[j]+1 dashes and `:` for    *)
(* Right, `:`, W[j] dashes and `:` for Center, W[j]+2 dashes otherwise),    *)
(* then `|` and a newline; it is as long as a data row.                     *)
C15_DividerRow ==
  \A i \in 1..Len(log) :
    (log[i].kind = "Table" /\ log[i].entering /\ Visitee(i).ch # <<>>) =>
      LET t == Visitee(i)
          lines == TableLines(i)
      IN /\ Len(lines) = Len(t.ch) + 1
         /\ lines[2] = Flatten([j \in 1..Len(t.aligns) |->
                                  DividerSegment(ColumnWidth(t, j), t.aligns[j])])
                       \o <<"|", "\n">>
         /\ \A r \in 1..Len(lines) :
              /\ Len(lines[r]) = Len(lines[2])
              /\ r # 2 => lines[r][2] = " "

\* a table of two rows with a right-aligned and a centered column has been
\* written, its divider between the two rows
C15_DividerAfterHeader ==
  /\ pc = "done"
  /\ log[2].kind = "Table"
  /\ root.ch[1].aligns = <<"right", "center">>
  /\ Len(root.ch[1].ch) = 2
  /\ CellText(root.ch[1].ch[1].ch[1]) = <<"a", "b">>
  /\ CellText(root.ch[1].ch[2].ch[2]) = <<"U+E9", "U+44F", "x">>
  /\ Occurs(<<"\n", "|", "-", "-", "-", ":", "|", ":", "-", "-", "-", ":", "|",
              "\n", "|", " ">>, Span(2))

\* a line of a blockquote's content as the quote is to show it
QuotedLine(line) ==
  <<">">>
  \o (IF line = <<>> \/ line[1] = "\n" \/ line[1] = ">" THEN <<>> ELSE <<" ">>)
  \o line

\* how deep the blockquote n nests blockquotes as its first child
RECURSIVE QuoteDepth(_)
QuoteDepth(n) ==
  IF n.ch # <<>> /\ n.ch[1].kind = "Blockquote" THEN 1 + QuoteDepth(n.ch[1])
  ELSE 1

\* the number of `>` characters text s starts with
RECURSIVE LeadingQuotes(_)
LeadingQuotes(s) ==
  IF s # <<>> /\ Head(s) = ">" THEN 1 + LeadingQuotes(Tail(s)) ELSE 0

(* C16: a blockquote is written as the lines of the trimmed rendering of    *)
(* its children, each after a `>` and, unless the line is empty or starts   *)
(* with `>`, one space; every line of it begins with `>`, and the first     *)
(* line of blockquotes nested n deep begins with n `>` characters.          *)
C16_BlockquotePrefixes ==
  \A i \in 1..Len(log) :
    (log[i].kind = "Blockquote" /\ log[i].entering) =>
      LET n == Visitee(i)
          content == TrimmedLines(RenderChildren(NewBuffer, n, 1, cfg))
          lines == SplitAfter(Span(i))
      IN /\ Span(i) = Flatten([k \in 1..Len(content) |-> QuotedLine(content[k])])
         /\ \A k \in 1..Len(lines) : lines[k] # <<>> /\ lines[k][1] = ">"
         /\ (n.ch[1].kind \in {"Blockquote", "Paragraph"} =>
               /\ LeadingQuotes(lines[1]) = QuoteDepth(n)
               /\ lines[1][QuoteDepth(n) + 1] = " ")

\* blockquotes nested three deep around two paragraphs have been written
C16_NestedQuoteRendered ==
  /\ pc = "done"
  /\ log[2].kind = "Blockquote"
  /\ QuoteDepth(root.ch[1]) = 3
  /\ Span(2) = <<">", ">", ">", " ", "q", "\n", ">", ">", ">", "\n",
                 ">", ">", ">", " ", "r">>

\* the ordinal of the k-th item of list n
Ordinal(n, k) == (IF n.start = 0 THEN 1 ELSE n.start) + k - 1

\* as many spaces as the marker of the k-th item of list n is wide
MarkerSpaces(n, k) ==
  Repeat(<<" ">>, Len(OpsText(ListMarkerOps(n, Ordinal(n, k), cfg))))

(* C17: in every item of every list, the lines after the first are indented *)
(* by the width of that item's marker (ordinal digits, marker character and *)
(* space for an ordered list; marker character and space for an unordered   *)
(* one), whatever ordinal the list reaches.                                 *)
C17_IndentIsMarkerWidth ==
  \A i \in 1..Len(log) :
    (log[i].kind = "List" /\ log[i].entering) =>
      LET n == Visitee(i)
      IN Span(i) = Flatten([k \in 1..Len(n.ch) |->
                              ItemText(n, k, MarkerSpaces(n, k))])
                   \o (IF n.tight THEN <<"\n">> ELSE <<>>)

\* the walker calls that reach raw HTML: the entry of a RawHTML node or of
\* an HTMLBlock, and the exit of an HTMLBlock (its closure line)
ReachesHTML(i) == log[i].kind \in {"RawHTML", "HTMLBlock"}

\* the source text of the raw HTML the i-th call is to show
HTMLSource(i) ==
  CASE log[i].entering -> Flatten(Visitee(i).lines)
    [] log[i].kind = "HTMLBlock" -> Visitee(i).closure \o <<"\n">>
    [] OTHER -> <<>>

(* C18: with SkipHTML set, no raw HTML is written, neither that of a        *)
(* RawHTML node nor that of an HTML block; with SkipHTML not set both are   *)
(* written as they stand in the source; the children of a RawHTML node are  *)
(* never visited.                                                           *)
C18_SkipHTMLRemovesHTML ==
  \A i \in 1..Len(log) :
    /\ ReachesHTML(i) =>
         IF cfg.SkipHTML THEN CountOf("<", Span(i)) + CountOf(">", Span(i)) = 0
         ELSE Span(i) = HTMLSource(i)
    /\ log[i].path # <<>> => NodeAt(root, Front(log[i].path)).kind # "RawHTML"

\* the kinds whose case renders the children into a scratch buffer
ScratchKinds ==
  {"Blockquote", "List", "Footnote", "DefinitionDescription", "Table"}

\* the runes the leaves of the documents are made of
LeafRunes ==
  {"a", "b", "c", "d", "f", "g", "p", "q", "r", "x", "z", "U+E9", "U+44F"}

\* the text of the leaves under node n, in document order
RECURSIVE LeafText(_)
LeafText(n) ==
  CASE n.kind \in {"Text", "String"} -> n.value
    [] n.kind \in {"CodeBlock", "FencedCodeBlock"} -> Flatten(n.lines)
    [] OTHER -> Flatten([k \in 1..Len(n.ch) |-> LeafText(n.ch[k])])

\* text s without the runes that are not those of a leaf
LeafRunesOf(s) == SelectSeq(s, LAMBDA r : r \in LeafRunes)

\* whether path p lies strictly below path q
Below(p, q) == Len(p) > Len(q) /\ SubSeq(p, 1, Len(q)) = q

(* C19: the walk of the call never visits a node below a blockquote, list,  *)
(* footnote, definition description or table, and the call that enters      *)
(* such a node writes the text of every leaf below it exactly once, the     *)
(* leaves in document order; so does the whole output of a document that    *)
(* holds such a node.                                                       *)
C19_DescendantsRenderedOnce ==
  \A i \in 1..Len(log) :
    /\ (log[i].kind \in ScratchKinds /\ log[i].entering) =>
         LeafRunesOf(Span(i)) = LeafRunesOf(LeafText(Visitee(i)))
    /\ \A k \in 1..Len(log) :
         log[k].kind \in ScratchKinds => ~Below(log[i].path, log[k].path)
    /\ (pc = "done" /\ log[i].kind \in ScratchKinds /\ root.meta = <<>>) =>
         LeafRunesOf(w.out) = LeafRunesOf(LeafText(root))

\* a list of two items has been written, the second holding a nested list
\* of an item of two lines: five leaves, each shown once
C19_NestedListRendered ==
  /\ pc = "done"
  /\ log[2].kind = "List"
  /\ Len(root.ch[1].ch) = 2
  /\ LeafText(root.ch[1]) = <<"a", "b", "a", "c", "d">>
  /\ LeafRunesOf(Span(2)) = <<"a", "b", "a", "c", "d">>

\* p: the pad count of the cell of row r and column j of table t
PadCount(t, r, j) == ColumnWidth(t, j) - Len(CellText(t.ch[r].ch[j]))

\* the spaces in front of a cell padded by p under an alignment
PadBefore(p, align) ==
  CASE align = "right" -> p
    [] align = "center" -> p \div 2
    [] OTHER -> 0

\* the cell of row r and column j of table t as the table is to show it
PaddedCell(t, r, j) ==
  LET p == PadCount(t, r, j)
      before == PadBefore(p, t.aligns[j])
  IN <<"|", " ">> \o Repeat(<<" ">>, before) \o CellText(t.ch[r].ch[j])
     \o Repeat(<<" ">>, p - before) \o <<" ">>

\* the line of row r of table t in the lines the table was written as: the
\* divider is the second line
RowLine(lines, r) == IF r = 1 THEN lines[1] ELSE lines[r + 1]

(* C20: in a rendered table the pad count p of a cell, the largest rune     *)
(* count of its column less its own, is never negative, and the cell is     *)
(* written as `| `, the padded text and one space: the p spaces after the   *)
(* text for left or no alignment, before it for right alignment, and        *)
(* floor(p/2) before and the rest after for centre alignment.               *)
C20_CellPadding ==
  \A i \in 1..Len(log) :
    (log[i].kind = "Table" /\ log[i].entering) =>
      LET t == Visitee(i)
          lines == TableLines(i)
      IN /\ Len(lines) = Len(t.ch) + 1
         /\ \A r \in 1..Len(t.ch) :
              /\ \A j \in 1..Len(t.aligns) : PadCount(t, r, j) >= 0
              /\ RowLine(lines, r) =
                   Flatten([j \in 1..Len(t.aligns) |-> PaddedCell(t, r, j)])
                   \o <<"|", "\n">>

\* a table has been written whose row pads both cells by one space: in
\* front of the text in the right-aligned column, behind it in the centred
\* one
C20_CentredCellRendered ==
  /\ pc = "done"
  /\ log[2].kind = "Table"
  /\ root.ch[1].aligns = <<"right", "center">>
  /\ Len(root.ch[1].ch) = 2
  /\ PadCount(root.ch[1], 2, 1) = 1
  /\ PadCount(root.ch[1], 2, 2) = 1
  /\ TableLines(2)[3] = <<"|", " ", " ", "a", "b", " ",
                          "|", " ", "a", "b", " ", " ", "|", "\n">>

\* the lines of the output up to the end of the i-th walker call
LinesUpTo(i) == SplitAfter(SubSeq(w.out, 1, log[i].to))

\* the underline the i-th call has written and the heading line above it,
\* each without its newline: the call ends the output with the underline's
\* newline and an empty line
UnderlineAt(i) ==
  LET lines == LinesUpTo(i) IN TrimRightSpace(lines[Len(lines) - 2])

HeadingLineAt(i) ==
  LET lines == LinesUpTo(i)
      line == lines[Len(lines) - 3]
  IN SubSeq(line, 1, Len(line) - 1)

(* C21: in reflow mode the setext underline of a heading of level 1 or 2    *)
(* has as many characters as the heading line written directly above it     *)
(* has runes, also when the heading's source spans several lines or the     *)
(* heading carries attributes.                                              *)
C21_UnderlineAsWideAsHeading ==
  \A i \in 1..Len(log) :
    (WritesUnderline(i) /\ ~cfg.LineBreak) =>
      Len(UnderlineAt(i)) = Len(HeadingLineAt(i))

\* the rendering of the children of node n into an empty buffer
OwnText(n) == RenderChildren(NewBuffer, n, 1, cfg).out

\* the leaf runes of the own texts of the children of node n, one after
\* the other
OwnRunes(n) == Flatten([k \in 1..Len(n.ch) |-> LeafRunesOf(OwnText(n.ch[k]))])

(* C22: the text written for a list item or a table cell is the rendering   *)
(* of its own children into an empty buffer, whatever items, cells, rows    *)
(* and nested lists came before: a list shows the texts of its items one    *)
(* after the other, a table those of the cells of its rows, and nothing of  *)
(* a sibling twice.                                                         *)
C22_OwnChildrenOnly ==
  \A i \in 1..Len(log) :
    /\ (log[i].kind = "List" /\ log[i].entering) =>
         LeafRunesOf(Span(i)) = OwnRunes(Visitee(i))
    /\ (log[i].kind = "Table" /\ log[i].entering) =>
         LET t == Visitee(i)
         IN /\ LeafRunesOf(Span(i)) =
                 Flatten([r \in 1..Len(t.ch) |-> OwnRunes(t.ch[r])])
            /\ \A r \in 1..Len(t.ch) : \A j \in 1..Len(t.aligns) :
                 LET line == RowLine(TableLines(i), r)
                 IN TrimSpace(SubSeq(line, BarAt(line, j) + 1,
                                     BarAt(line, j + 1) - 1))
                    = OwnText(t.ch[r].ch[j])

\* a list has been written whose first item holds a nested list and whose
\* second item holds one line: the second item shows nothing of the first
C22_ItemAfterNestedList ==
  /\ pc = "done"
  /\ log[2].kind = "List"
  /\ Len(root.ch[1].ch) = 2
  /\ LeafText(root.ch[1].ch[1]) = <<"a", "c", "d">>
  /\ LeafText(root.ch[1].ch[2]) = <<"a">>
  /\ LeafRunesOf(Span(2)) = <<"a", "c", "d", "a">>

\* whether rendering node n under the settings runs into a fault that is
\* no write error: a table row with more cells than the table has
\* alignments, or a setext heading without source lines in hard-wrap mode,
\* in n or below it
RECURSIVE Faulty(_)
Faulty(n) ==
  \/ /\ n.kind = "Table"
     /\ \E r \in 1..Len(n.ch) : Len(n.ch[r].ch) > Len(n.aligns)
  \/ /\ n.kind = "Heading"
     /\ n.level \in {1, 2}
     /\ n.lines = <<>>
     /\ cfg.STXHeader /\ cfg.LineBreak
  \/ \E k \in 1..Len(n.ch) : Faulty(n.ch[k])

(* C23: a panic raised during the walk, by a failed write or by a fault     *)
(* that is no write error, at the top level or in a nested Render call,     *)
(* ends the walk and is recovered: the call returns, and it returns an      *)
(* error exactly when a write failed or the document holds such a fault.    *)
C23_PanicBecomesError ==
  /\ (w.panic # "none" \/ w.stop) => pc \in {"return", "done"}
  /\ pc = "done" =>
       /\ result \in {"nil", "write", "fault"}
       /\ result # "nil" <=> (w.failedAt # 0 \/ Faulty(root))
       /\ w.panic # "none" => result # "nil"

\* a call has returned an error although every write succeeded: a table
\* with a row too long, inside a blockquote inside a blockquote, made the
\* nested calls fail
C23_NestedFaultReturned ==
  /\ pc = "done"
  /\ failAt = 0
  /\ root.ch[2].kind = "Blockquote"
  /\ Len(root.ch[2].ch) = 2
  /\ Faulty(root.ch[2].ch[2])
  /\ root.ch[2].ch[2].ch[1].kind = "Table"
  /\ w.stop
  /\ result = "fault"

\* the front end has ended: Format has returned or log.Fatal was called
CliEnded == cli.pc \in {"done", "fatal"}

\* no slice expression has panicked, the search offset lies within the
\* input, and an input no front matter was cut off is passed on as it was
CliInBounds ==
  /\ cli.pc # "panic"
  /\ cli.start >= 4 /\ cli.start <= Len(cli.input)
  /\ cli.pc = "decode" => cli.start + cli.end + 4 <= Len(cli.input)
  /\ (cli.pc = "done" /\ cli.end = -1) => cli.passed = cli.input

\* a retry moves the search offset forward
RetryAdvances ==
  (cli.pc = "decode" /\ cli'.pc = "research") => cli'.start > cli.start

(* C24: for an input that begins with `---` and a newline the search for    *)
(* the end of the front matter terminates: every retry increases the        *)
(* search offset, the offset stays within the input, no slice leaves it,    *)
(* and when no marker ends a block that decodes the whole input is passed   *)
(* on to Format.                                                            *)
C24_SearchTerminates ==
  /\ [](HasPrefix(cli.input, FrontMatterStart) => CliInBounds)
  /\ [][RetryAdvances]_vars
  /\ <>CliEnded

\* the search has retried twice, found no further marker and passed the
\* whole input on
C24_RetriedAndPassedOn ==
  /\ cli.pc = "done"
  /\ cli.start = 12
  /\ cli.end = -1
  /\ cli.input = FrontMatterStart
                 \o <<"\n", "-", "-", "-", "\n", ".", ".", ".", "k">>
  /\ cli.passed = cli.input

====
